---- MODULE Spec2Model ----
(***************************************************************************)
(* configtrace: the change-auditing engine.                                *)
(*                                                                         *)
(*   - the key-level differ        (src/git/differ.rs)                     *)
(*   - the config flattener        (src/policy/parser.rs)                  *)
(*   - the policy rule engine      (src/policy/evaluator.rs)               *)
(*   - the history source          (src/git/repo.rs)                       *)
(*   - the change aggregator       (src/git/mod.rs: git_log, git_diff)     *)
(*                                                                         *)
(* Strings are sequences of one-character strings; Code gives each         *)
(* character its byte, so that String's Ord (bytewise lexicographic) is    *)
(* computed and not assumed.  A HashMap<String,String> is a function from  *)
(* its key set to values; where the code iterates a HashMap, the iteration *)
(* order is an explicit argument (a sequence of the keys).                 *)
(***************************************************************************)
EXTENDS Integers, Sequences, FiniteSets, TLC

VARIABLES
    \* ---- diff_config_maps under test
    old,            \* HashMap<String,String>: the old flat map
    new,            \* HashMap<String,String>: the new flat map
    oldIter,        \* the order in which old.keys() yields the keys
    newIter,        \* the order in which new.keys() yields the keys
    changes,        \* Vec<KeyChange> returned by diff_config_maps(old, new)
    rchanges,       \* Vec<KeyChange> returned by diff_config_maps(new, old)
    dpc,            \* which of the two calls have returned
    \* ---- flatten under test
    doc,            \* serde_json::Value: the parsed document
    flat,           \* HashMap<String,String>: the map flatten fills
    fpc,            \* "start" | "done"
    \* ---- the repository and the command line of git_log / git_diff
    commits,        \* the commit graph: id -> [parents, time, tree]
    policy_file,    \* Option<PolicyFile>: the policy loaded, if one is given
    path_filter,    \* Option<&str>
    limit,          \* git_log's limit
    ref1,           \* git_diff's refs, as the commits they resolve to
    ref2,           \*   (0: the ref does not resolve)
    \* ---- the locals of git_log / git_diff
    oids,           \* Vec<Oid> returned by walk_commits
    all_files,      \* git_diff's BTreeSet of paths, ascending
    next,           \* the position of the loop over oids / all_files
    commit_results, \* Vec<CommitConfigChanges>
    file_changes_list, \* git_diff's Vec<FileChanges>
    has_violations, \* the bool returned
    totals,         \* git_diff's total_added, total_removed, total_changed
    report,         \* the GitLogReport / GitDiffReport handed to output
    pc,             \* where the handler is
    \* ---- the rule engine under test
    erule,          \* &RuleDefinition
    emap,           \* flat_map: &HashMap<String,String>
    epath,          \* file_path: &Path
    eapplies,       \* bool returned by rule_applies_to_file
    eviolation,     \* Option<Violation> returned by evaluate_rule(erule, ..)
    erequired,      \* ... by evaluate_rule on RequiredKey of erule's key
    eforbidden,     \* ... by evaluate_rule on ForbiddenKey of erule's key
    epc,            \* which calls have returned
    \* ---- evaluate_policy (the directory check)
    walk_dir,       \* the files WalkDir yields: path -> content
    policy,         \* &PolicyFile
    visited,        \* the entries the walk has yielded
    total_files,    \* total_files
    severity_counts, \* critical_count, high_count, medium_count, low_count
    all_file_violations, \* Vec<FileViolations>
    policy_report,  \* the PolicyReport returned
    cpc,            \* where evaluate_policy is
    \* ---- list_config_files_in_tree under test
    list_tree,      \* tree: &Tree
    list_filter,    \* path_filter: Option<&str>
    listed_files,   \* the Vec<String> returned
    list_pc,        \* whether the call has returned
    \* ---- parse_config_file under test
    parse_path,     \* path: &Path
    parse_content,  \* the file's content
    parse_format,   \* the arm of `match ext` taken
    parse_result,   \* the Result<HashMap<String,String>> returned
    parse_pc,       \* whether the call has returned
    \* ---- collect_log, run on the repository git_log is run on
    collected,      \* the Result<GitLogReport> returned
    collect_pc      \* whether the call has returned

dvars == <<old, new, oldIter, newIter, changes, rchanges, dpc>>
fvars == <<doc, flat, fpc>>
repovars == <<commits, policy_file, path_filter, limit, ref1, ref2>>
gvars == <<oids, all_files, next, commit_results, file_changes_list,
           has_violations, totals, report, pc>>

evars == <<erule, emap, epath, eapplies, eviolation, erequired, eforbidden, epc>>
cvars == <<walk_dir, policy, visited, total_files, severity_counts,
           all_file_violations, policy_report, cpc>>

lvars == <<list_tree, list_filter, listed_files, list_pc>>
pvars == <<parse_path, parse_content, parse_format, parse_result, parse_pc>>
colvars == <<collected, collect_pc>>
tvars == <<lvars, pvars, colvars>>

vars == <<dvars, fvars, repovars, gvars, evars, cvars, tvars>>

-----------------------------------------------------------------------------
(* Strings                                                                 *)

\* The byte of each character the model uses (ASCII).
Code ==
    ("*" :> 42) @@ ("-" :> 45) @@ ("." :> 46) @@ ("/" :> 47) @@
    ("0" :> 48) @@ ("1" :> 49) @@ ("2" :> 50) @@ ("3" :> 51) @@ ("4" :> 52) @@
    ("5" :> 53) @@ ("6" :> 54) @@ ("7" :> 55) @@ ("8" :> 56) @@ ("9" :> 57) @@
    ("[" :> 91) @@ ("]" :> 93) @@
    ("a" :> 97) @@ ("b" :> 98) @@ ("c" :> 99) @@ ("d" :> 100) @@ ("e" :> 101) @@
    ("f" :> 102) @@ ("g" :> 103) @@ ("h" :> 104) @@ ("i" :> 105) @@ ("j" :> 106) @@
    ("k" :> 107) @@ ("l" :> 108) @@ ("m" :> 109) @@ ("n" :> 110) @@ ("o" :> 111) @@
    ("p" :> 112) @@ ("q" :> 113) @@ ("r" :> 114) @@ ("s" :> 115) @@ ("t" :> 116) @@
    ("u" :> 117) @@ ("v" :> 118) @@ ("w" :> 119) @@ ("x" :> 120) @@ ("y" :> 121) @@
    ("z" :> 122)

\* String's Ord: s < t, bytewise lexicographic (a proper prefix is smaller).
RECURSIVE StrLess(_, _)
StrLess(s, t) ==
    IF t = <<>> THEN FALSE
    ELSE IF s = <<>> THEN TRUE
    ELSE IF Code[Head(s)] < Code[Head(t)] THEN TRUE
    ELSE IF Code[Head(s)] > Code[Head(t)] THEN FALSE
    ELSE StrLess(Tail(s), Tail(t))

\* The strings of S in ascending order.
RECURSIVE Ascending(_)
Ascending(S) ==
    IF S = {} THEN <<>>
    ELSE LET m == CHOOSE x \in S : \A y \in S \ {x} : StrLess(x, y)
         IN  <<m>> \o Ascending(S \ {m})

\* str::starts_with
StartsWith(s, p) ==
    /\ Len(p) <= Len(s)
    /\ SubSeq(s, 1, Len(p)) = p

-----------------------------------------------------------------------------
(* Option<String>                                                          *)

None == [some |-> FALSE, v |-> <<>>]
Some(x) == [some |-> TRUE, v |-> x]

\* HashMap::get
Get(m, k) == IF k \in DOMAIN m THEN Some(m[k]) ELSE None

EmptyMap == [k \in {} |-> <<>>]

-----------------------------------------------------------------------------
(* Key-level differ: src/git/differ.rs                                     *)

\* BTreeSet::insert on the set kept as its ascending sequence.
RECURSIVE BTreeInsert(_, _)
BTreeInsert(sorted, k) ==
    IF sorted = <<>> THEN <<k>>
    ELSE IF Head(sorted) = k THEN sorted
    ELSE IF StrLess(k, Head(sorted)) THEN <<k>> \o sorted
    ELSE <<Head(sorted)>> \o BTreeInsert(Tail(sorted), k)

\* Iterator::collect::<BTreeSet<_>>() over a sequence of keys.
RECURSIVE CollectBTreeSet(_, _)
CollectBTreeSet(keys, acc) ==
    IF keys = <<>> THEN acc
    ELSE CollectBTreeSet(Tail(keys), BTreeInsert(acc, Head(keys)))

\* A mutant of AllKeys: the keys are collected into a Vec, in iteration
\* order, and not into a BTreeSet.
AllKeysUnsorted(oIter, nIter) == oIter \o nIter

\* differ.rs line 12: old.keys().chain(new.keys()).collect::<BTreeSet<_>>()
AllKeys(oIter, nIter) == CollectBTreeSet(oIter \o nIter, <<>>)

KeyChange(key, kind, ov, nv) ==
    [key |-> key, kind |-> kind, old_value |-> ov, new_value |-> nv]

\* A mutant of DiffEntry: equal values are reported as Changed too (the
\* guard of the third arm is lost).
DiffEntryNoGuard(o, n, key) ==
    LET ov == Get(o, key)
        nv == Get(n, key)
    IN  IF ~ov.some /\ nv.some THEN <<KeyChange(key, "Added", None, nv)>>
        ELSE IF ov.some /\ ~nv.some THEN <<KeyChange(key, "Removed", ov, None)>>
        ELSE IF ov.some /\ nv.some THEN <<KeyChange(key, "Changed", ov, nv)>>
        ELSE <<>>

\* A mutant of DiffEntry: a Changed entry carries the new value on both
\* sides.
DiffEntryChangedNew(o, n, key) ==
    LET ov == Get(o, key)
        nv == Get(n, key)
    IN  IF ~ov.some /\ nv.some THEN <<KeyChange(key, "Added", None, nv)>>
        ELSE IF ov.some /\ ~nv.some THEN <<KeyChange(key, "Removed", ov, None)>>
        ELSE IF ov.some /\ nv.some /\ ov.v # nv.v
             THEN <<KeyChange(key, "Changed", nv, nv)>>
        ELSE <<>>

\* differ.rs lines 15-41: the match on (old.get(key), new.get(key)); the
\* entries pushed for one key (none or one).
DiffEntry(o, n, key) ==
    LET ov == Get(o, key)
        nv == Get(n, key)
    IN  IF ~ov.some /\ nv.some THEN <<KeyChange(key, "Added", None, nv)>>
        ELSE IF ov.some /\ ~nv.some THEN <<KeyChange(key, "Removed", ov, None)>>
        ELSE IF ov.some /\ nv.some /\ ov.v # nv.v
             THEN <<KeyChange(key, "Changed", ov, nv)>>
        ELSE <<>>

\* differ.rs lines 14-42: the loop over all_keys.
RECURSIVE DiffLoop(_, _, _)
DiffLoop(o, n, keys) ==
    IF keys = <<>> THEN <<>>
    ELSE DiffEntry(o, n, Head(keys)) \o DiffLoop(o, n, Tail(keys))

\* diff_config_maps(old, new), the maps iterated in the orders oIter, nIter.
DiffConfigMapsIter(o, n, oIter, nIter) == DiffLoop(o, n, AllKeys(oIter, nIter))

-----------------------------------------------------------------------------
(* Config flattener: src/policy/parser.rs                                  *)

\* serde_json::Value.  An object's kids are its (name, value) entries in
\* the order serde_json's Map iterates them (ascending by name); an array's
\* kids are its elements (their names unused).
Str(x) == [kind |-> "string", s |-> x, n |-> 0, b |-> FALSE, kids |-> <<>>]
Num(x) == [kind |-> "number", s |-> <<>>, n |-> x, b |-> FALSE, kids |-> <<>>]
Bool(x) == [kind |-> "bool", s |-> <<>>, n |-> 0, b |-> x, kids |-> <<>>]
Null == [kind |-> "null", s |-> <<>>, n |-> 0, b |-> FALSE, kids |-> <<>>]
Obj(entries) ==
    [kind |-> "object", s |-> <<>>, n |-> 0, b |-> FALSE, kids |-> entries]
Arr(items) ==
    [kind |-> "array", s |-> <<>>, n |-> 0, b |-> FALSE,
     kids |-> [i \in DOMAIN items |-> [name |-> <<>>, val |-> items[i]]]]
Field(name, val) == [name |-> name, val |-> val]

IsScalar(v) == v.kind \in {"string", "number", "bool", "null"}

Digits == <<"0", "1", "2", "3", "4", "5", "6", "7", "8", "9">>

\* The decimal text of a natural number (usize's and u64's Display).
RECURSIVE NatToString(_)
NatToString(x) ==
    IF x < 10 THEN <<Digits[x + 1]>>
    ELSE NatToString(x \div 10) \o <<Digits[(x % 10) + 1]>>

\* serde_json::Number::to_string, for integers.
NumberToString(x) ==
    IF x < 0 THEN <<"-">> \o NatToString(-x) ELSE NatToString(x)

\* bool::to_string
BoolToString(x) == IF x THEN <<"t", "r", "u", "e">> ELSE <<"f", "a", "l", "s", "e">>

\* HashMap::insert
Insert(m, k, v) == [x \in DOMAIN m \cup {k} |-> IF x = k THEN v ELSE m[x]]

\* A mutant of ObjectKey: the dot is written at the top level too.
ObjectKeyLeadingDot(prefix, k) == prefix \o <<".">> \o k

\* parser.rs lines 39-43: the key of an object's field.
ObjectKey(prefix, k) == IF prefix = <<>> THEN k ELSE prefix \o <<".">> \o k

\* parser.rs line 49: the key of an array's element i (0-based).
ArrayKey(prefix, i) == prefix \o <<"[">> \o NatToString(i) \o <<"]">>

\* parser.rs lines 53-64: the text inserted for a scalar leaf.
LeafText(v) ==
    CASE v.kind = "string" -> v.s
      [] v.kind = "number" -> NumberToString(v.n)
      [] v.kind = "bool" -> BoolToString(v.b)
      [] v.kind = "null" -> <<"n", "u", "l", "l">>

\* flatten(prefix, value, map): the map after the call.  FlattenKids is the
\* for loop of the Object and Array arms from kid i on.
RECURSIVE Flatten(_, _, _)
RECURSIVE FlattenKids(_, _, _, _)
Flatten(prefix, value, map) ==
    IF value.kind \in {"object", "array"}
    THEN FlattenKids(prefix, value, 1, map)
    ELSE Insert(map, prefix, LeafText(value))

FlattenKids(prefix, value, i, map) ==
    IF i > Len(value.kids) THEN map
    ELSE LET new_key == IF value.kind = "object"
                        THEN ObjectKey(prefix, value.kids[i].name)
                        ELSE ArrayKey(prefix, i - 1)
         IN  FlattenKids(prefix, value, i + 1,
                         Flatten(new_key, value.kids[i].val, map))

-----------------------------------------------------------------------------
(* Paths: std::path::Path over '/'-separated strings                       *)

\* The position of the last occurrence of character c in s, 0 if none.
RECURSIVE LastIndexOf(_, _)
LastIndexOf(s, c) ==
    IF s = <<>> THEN 0
    ELSE IF s[Len(s)] = c THEN Len(s)
    ELSE LastIndexOf(SubSeq(s, 1, Len(s) - 1), c)

\* Path::file_name, for a path that does not end in a separator.
FileName(path) == SubSeq(path, LastIndexOf(path, "/") + 1, Len(path))

\* Path::extension: the part of the file name after its last dot; none if
\* the name has no dot, or only a leading one.
Extension(path) ==
    LET name == FileName(path)
        dot == LastIndexOf(name, ".")
    IN  IF dot <= 1 THEN None ELSE Some(SubSeq(name, dot + 1, Len(name)))

ConfigExtensions ==
    { <<"y", "m", "l">>, <<"y", "a", "m", "l">>, <<"j", "s", "o", "n">>,
      <<"t", "o", "m", "l">> }

\* utils.rs is_config
IsConfig(path) ==
    LET ext == Extension(path)
    IN  ext.some /\ ext.v \in ConfigExtensions

\* parse_config_file's `match ext`: the parser an extension selects, or
\* "unsupported" for the arm that bails.
ConfigFormat(ext) ==
    CASE ext \in {<<"y", "a", "m", "l">>, <<"y", "m", "l">>} -> "yaml"
      [] ext = <<"j", "s", "o", "n">> -> "json"
      [] ext = <<"t", "o", "m", "l">> -> "toml"
      [] OTHER -> "unsupported"

\* The ext the aggregator hands the parser:
\* Path::new(file_path).extension().and_then(|s| s.to_str()).unwrap_or("")
ExtOf(path) == LET ext == Extension(path) IN IF ext.some THEN ext.v ELSE <<>>

-----------------------------------------------------------------------------
(* History source: src/git/repo.rs                                         *)
(*                                                                         *)
(* A tree is a function from the paths of its blobs to their contents;     *)
(* its directories are the proper prefixes of those paths.  A blob is      *)
(* UTF-8 text or not; text is the serialisation of a document in the       *)
(* file's format, or malformed.                                            *)

Text(d) == [utf8 |-> TRUE, wellformed |-> TRUE, doc |-> d]
Malformed == [utf8 |-> TRUE, wellformed |-> FALSE, doc |-> Null]
Binary == [utf8 |-> FALSE, wellformed |-> FALSE, doc |-> Null]

\* Tree::get_path: "blob", "tree" (the path names a directory) or "none".
EntryKind(tree, path) ==
    IF path \in DOMAIN tree THEN "blob"
    ELSE IF \E q \in DOMAIN tree : StartsWith(q, path \o <<"/">>) THEN "tree"
    ELSE "none"

\* Result<Option<String>>
OkNone == [err |-> FALSE, some |-> FALSE, v |-> Binary]
OkSome(content) == [err |-> FALSE, some |-> TRUE, v |-> content]
Failed == [err |-> TRUE, some |-> FALSE, v |-> Binary]

\* get_file_content_at_commit, on the commit's tree.
GetFileContentAtCommit(tree, file_path) ==
    CASE EntryKind(tree, file_path) = "none" -> OkNone
      [] EntryKind(tree, file_path) = "tree" -> Failed      \* find_blob fails
      [] OTHER -> IF tree[file_path].utf8 THEN OkSome(tree[file_path])
                  ELSE OkNone

\* A filter path without its trailing separators, as Path's components
\* see it.
RECURSIVE StripSlash(_)
StripSlash(path) ==
    IF path # <<>> /\ path[Len(path)] = "/"
    THEN StripSlash(SubSeq(path, 1, Len(path) - 1))
    ELSE path

\* A mutant of CollectConfigFiles: the paths are pushed as the walk of the
\* subtree sees them, without the prefix.
CollectConfigFilesInner(tree, dir, prefix) ==
    LET under == IF dir = <<>> THEN DOMAIN tree
                 ELSE {q \in DOMAIN tree : StartsWith(q, dir \o <<"/">>)}
        inner(q) == IF dir = <<>> THEN q ELSE SubSeq(q, Len(dir) + 2, Len(q))
    IN  {inner(q) : q \in {r \in under : IsConfig(inner(r))}}

\* collect_config_files: the full paths pushed for the blobs of the subtree
\* at directory dir (the empty string: the whole tree), given as prefix.
CollectConfigFiles(tree, dir, prefix) ==
    LET under == IF dir = <<>> THEN DOMAIN tree
                 ELSE {q \in DOMAIN tree : StartsWith(q, dir \o <<"/">>)}
        inner(q) == IF dir = <<>> THEN q ELSE SubSeq(q, Len(dir) + 2, Len(q))
        full(q) == IF prefix = <<>> THEN inner(q)
                   ELSE IF prefix[Len(prefix)] = "/" THEN prefix \o inner(q)
                   ELSE prefix \o <<"/">> \o inner(q)
    IN  {full(q) : q \in {r \in under : IsConfig(full(r))}}

\* list_config_files_in_tree: the sorted Vec of config paths.
ListConfigFilesInTree(tree, filter) ==
    IF filter.some
    THEN LET dir == StripSlash(filter.v)
         IN  CASE dir = <<>> -> <<>>
               [] EntryKind(tree, dir) = "tree" ->
                     Ascending(CollectConfigFiles(tree, dir, filter.v))
               [] EntryKind(tree, dir) = "blob" ->
                     IF IsConfig(filter.v) THEN <<filter.v>> ELSE <<>>
               [] OTHER -> <<>>
    ELSE Ascending(CollectConfigFiles(tree, <<>>, <<>>))

\* The commits reachable from those of start (a set of ids).
RECURSIVE Reachable(_, _)
Reachable(cms, start) ==
    LET grown == start \cup ({cms[c].parents[i] :
                               c \in start, i \in 1..2} \ {0})
    IN  IF grown = start THEN start ELSE Reachable(cms, grown)

\* Revwalk with Sort::TIME: the commit-time priority queue.  The newest
\* queued commit is yielded and its parents are queued, each commit once.
RECURSIVE Revwalk(_, _, _)
Revwalk(cms, queue, seen) ==
    IF queue = {} THEN <<>>
    ELSE LET c == CHOOSE x \in queue :
                    \A y \in queue : cms[y].time <= cms[x].time
             ps == {cms[c].parents[i] : i \in 1..2} \ ({0} \cup seen)
         IN  <<c>> \o Revwalk(cms, (queue \ {c}) \cup ps, seen \cup ps)

\* A mutant of WalkCommits: the walk is not cut at the limit.
WalkCommitsUnbounded(cms, head, lim) == Revwalk(cms, {head}, {head})

\* walk_commits: the first `limit` commits of the walk from HEAD.
WalkCommits(cms, head, lim) ==
    LET all == Revwalk(cms, {head}, {head})
    IN  SubSeq(all, 1, IF Len(all) < lim THEN Len(all) ELSE lim)

-----------------------------------------------------------------------------
(* Parsing a blob's text (policy::parser::parse_config_content)            *)

ParseError == [ok |-> FALSE, map |-> EmptyMap]
ParseOk(m) == [ok |-> TRUE, map |-> m]

\* parse(text, format_hint): the flat map of the document the text holds;
\* UnsupportedFormat for an extension of none of the three families,
\* ParseError for malformed text.
ParseConfigContent(content, ext) ==
    IF ext \notin ConfigExtensions THEN ParseError
    ELSE IF ~content.wellformed THEN ParseError
    ELSE ParseOk(Flatten(<<>>, content.doc, EmptyMap))

\* content.as_ref().and_then(|c| parse_config_content(c, ext).ok()):
\* Option<HashMap>, as [some, map].
ParsedOption(content, ext) ==
    IF content.some /\ ParseConfigContent(content.v, ext).ok
    THEN [some |-> TRUE, map |-> ParseConfigContent(content.v, ext).map]
    ELSE [some |-> FALSE, map |-> EmptyMap]

-----------------------------------------------------------------------------
(* Policy rule engine: src/policy/evaluator.rs                             *)

\* str::contains
RECURSIVE Contains(_, _)
Contains(s, sub) ==
    IF StartsWith(s, sub) THEN TRUE
    ELSE IF s = <<>> THEN FALSE
    ELSE Contains(Tail(s), sub)

\* glob::Pattern::matches under the default MatchOptions, for patterns of
\* literal characters, '?', '*' and '**': '?' matches any one character
\* and '*' any sequence of characters, separators included; '**' with the
\* separator after it matches nothing, or any characters up to a
\* separator, or all that is left.
RECURSIVE GlobMatches(_, _)
GlobMatches(pat, text) ==
    IF pat = <<>> THEN text = <<>>
    ELSE IF StartsWith(pat, <<"*", "*">>)
         THEN LET n == IF StartsWith(pat, <<"*", "*", "/">>) THEN 3 ELSE 2
                  rest == SubSeq(pat, n + 1, Len(pat))
              IN  \/ GlobMatches(rest, text)
                  \/ \E j \in 1..Len(text) :
                        /\ text[j] = "/"
                        /\ GlobMatches(rest, SubSeq(text, j + 1, Len(text)))
                  \/ GlobMatches(rest, <<>>)
    ELSE IF Head(pat) = "*"
         THEN \/ GlobMatches(Tail(pat), text)
              \/ text # <<>> /\ GlobMatches(pat, Tail(text))
    ELSE IF text = <<>> THEN FALSE
    ELSE IF Head(pat) = "?" \/ Head(pat) = Head(text)
         THEN GlobMatches(Tail(pat), Tail(text))
    ELSE FALSE

\* A mutant of RuleAppliesToFile: every pattern is matched against the full
\* path.
RuleAppliesToFullPath(rule, file_path) ==
    IF ~rule.pattern.some THEN TRUE
    ELSE GlobMatches(rule.pattern.v, file_path)

\* rule_applies_to_file
RuleAppliesToFile(rule, file_path) ==
    IF ~rule.pattern.some THEN TRUE
    ELSE IF Contains(rule.pattern.v, <<"/">>) \/ Contains(rule.pattern.v, <<"*", "*">>)
         THEN GlobMatches(rule.pattern.v, file_path)
    ELSE GlobMatches(rule.pattern.v, FileName(file_path))

\* A regex of literal characters, '.', '^' and '$', matched at position pos
\* of s (the position after the last character is Len(s) + 1).
RECURSIVE RegexMatchesAt(_, _, _)
RegexMatchesAt(re, s, pos) ==
    IF re = <<>> THEN TRUE
    ELSE IF Head(re) = "^" THEN pos = 1 /\ RegexMatchesAt(Tail(re), s, pos)
    ELSE IF Head(re) = "$"
         THEN pos = Len(s) + 1 /\ RegexMatchesAt(Tail(re), s, pos)
    ELSE IF pos > Len(s) THEN FALSE
    ELSE IF Head(re) = "." \/ Head(re) = s[pos]
         THEN RegexMatchesAt(Tail(re), s, pos + 1)
    ELSE FALSE

\* A mutant of RegexIsMatch: the regex is matched at the start of s only.
RegexMatchesAtStart(re, s) == RegexMatchesAt(re, s, 1)

\* regex::Regex::is_match: the regex matches somewhere in s.
RegexIsMatch(re, s) == \E pos \in 1..(Len(s) + 1) : RegexMatchesAt(re, s, pos)

\* values.join(", ")
RECURSIVE Join(_)
Join(values) ==
    IF values = <<>> THEN <<>>
    ELSE IF Len(values) = 1 THEN values[1]
    ELSE values[1] \o <<",", " ">> \o Join(Tail(values))

\* A mutant of VecContains: only the first element is compared.
VecContainsFirst(values, value) == values # <<>> /\ values[1] = value

\* values.contains(value)
VecContains(values, value) == \E i \in DOMAIN values : values[i] = value

Quote == <<"'">>

\* format!("Required key '{}' is missing", key)
MissingMessage(key) ==
    <<"R", "e", "q", "u", "i", "r", "e", "d", " ", "k", "e", "y", " ">> \o Quote \o key \o Quote
    \o <<" ", "i", "s", " ", "m", "i", "s", "s", "i", "n", "g">>

\* format!("Forbidden key '{}' is present", key)
PresentMessage(key) ==
    <<"F", "o", "r", "b", "i", "d", "d", "e", "n", " ", "k", "e", "y", " ">> \o Quote \o key \o Quote
    \o <<" ", "i", "s", " ", "p", "r", "e", "s", "e", "n", "t">>

\* format!("Value '{}' for key '{}' ", value, key), the head of two messages
ValueForKey(value, key) ==
    <<"V", "a", "l", "u", "e", " ">> \o Quote \o value \o Quote
    \o <<" ", "f", "o", "r", " ", "k", "e", "y", " ">> \o Quote \o key \o Quote

\* format!("Value '{}' for key '{}' does not match pattern '{}'", ..)
NoMatchMessage(value, key, regex) ==
    ValueForKey(value, key)
    \o <<" ", "d", "o", "e", "s", " ", "n", "o", "t", " ", "m", "a", "t", "c", "h", " ", "p", "a", "t", "t", "e", "r", "n", " ">>
    \o Quote \o regex \o Quote

\* format!("Value '{}' for key '{}' is not in allowed set: [{}]", ..)
NotAllowedMessage(value, key, values) ==
    ValueForKey(value, key)
    \o <<" ", "i", "s", " ", "n", "o", "t", " ", "i", "n", " ", "a", "l", "l", "o", "w", "e", "d", " ", "s", "e", "t", ":", " ">>
    \o <<"[">> \o Join(values) \o <<"]">>

\* format!("Forbidden value '{}' found for key '{}'", value, key)
ForbiddenValueMessage(value, key) ==
    <<"F", "o", "r", "b", "i", "d", "d", "e", "n", " ", "v", "a", "l", "u", "e", " ">> \o Quote \o value \o Quote
    \o <<" ", "f", "o", "u", "n", "d", " ", "f", "o", "r", " ", "k", "e", "y", " ">> \o Quote \o key \o Quote

\* A mutant of Violation: the severity is not taken from the rule.
ViolationLowSeverity(rule, file_path, message) ==
    [rule_id |-> rule.id, severity |-> "Low", file |-> file_path,
     key |-> rule.check.key, message |-> message]

Violation(rule, file_path, message) ==
    [rule_id |-> rule.id, severity |-> rule.severity, file |-> file_path,
     key |-> rule.check.key, message |-> message]

\* A mutant of KeyExists: only the key itself counts.
KeyExistsExact(flat_map, key) == key \in DOMAIN flat_map

\* evaluator.rs lines 109-110 and 125-126: the key, or a key under it.
KeyExists(flat_map, key) ==
    \/ key \in DOMAIN flat_map
    \/ \E k \in DOMAIN flat_map : StartsWith(k, key \o <<".">>)

\* A mutant of evaluate_rule: a rule on a key is violated by any value of
\* the key.
EvaluateRuleAnyValue(rule, file_path, flat_map) ==
    LET key == rule.check.key
    IN  IF key \in DOMAIN flat_map
        THEN <<Violation(rule, file_path,
                 ForbiddenValueMessage(flat_map[key], key))>>
        ELSE <<>>

\* evaluate_rule: the Option<Violation>, as a sequence of none or one.
EvaluateRule(rule, file_path, flat_map) ==
    LET key == rule.check.key
    IN  CASE rule.check.type = "required_key" ->
               IF ~KeyExists(flat_map, key)
               THEN <<Violation(rule, file_path, MissingMessage(key))>>
               ELSE <<>>
          [] rule.check.type = "forbidden_key" ->
               IF KeyExists(flat_map, key)
               THEN <<Violation(rule, file_path, PresentMessage(key))>>
               ELSE <<>>
          [] rule.check.type = "value_match" ->
               IF key \in DOMAIN flat_map
                  /\ ~RegexIsMatch(rule.check.regex, flat_map[key])
               THEN <<Violation(rule, file_path,
                        NoMatchMessage(flat_map[key], key, rule.check.regex))>>
               ELSE <<>>
          [] rule.check.type = "value_enum" ->
               IF key \in DOMAIN flat_map
                  /\ ~VecContains(rule.check.values, flat_map[key])
               THEN <<Violation(rule, file_path,
                        NotAllowedMessage(flat_map[key], key, rule.check.values))>>
               ELSE <<>>
          [] rule.check.type = "forbidden_value" ->
               IF key \in DOMAIN flat_map /\ flat_map[key] = rule.check.value
               THEN <<Violation(rule, file_path,
                        ForbiddenValueMessage(flat_map[key], key))>>
               ELSE <<>>

-----------------------------------------------------------------------------
(* The object database of the repositories the aggregator is run on.       *)

PathA == <<"a", ".", "y", "a", "m", "l">>
PathB == <<"d", "/", "b", ".", "j", "s", "o", "n">>
PathC == <<"a", ".", "y", "a", "m", "l", "/", "c", ".", "y", "m", "l">>
PathN == <<"n", ".", "t", "x", "t">>
DirD == <<"d">>

KeyK == <<"k">>
KeyX == <<"x">>
KeyXY == <<"x", ".", "y">>

\* {"k":"1"}
DocK1 == Obj(<<Field(KeyK, Str(<<"1">>))>>)
\* {"x":{"y":1}}
DocXY == Obj(<<Field(KeyX, Obj(<<Field(<<"y">>, Num(1))>>))>>)
\* {"k":"2","x":{"y":1}}
DocK2XY ==
    Obj(<<Field(KeyK, Str(<<"2">>)),
          Field(KeyX, Obj(<<Field(<<"y">>, Num(1))>>))>>)

TreeNoConfig == (PathN :> Malformed)
TreeK1 == (PathA :> Text(DocK1))
TreeXY == (PathA :> Text(DocXY))
TreeBoth == (PathA :> Text(DocK2XY)) @@ (PathB :> Text(DocK1))
TreeBroken == (PathA :> Malformed) @@ (PathB :> Binary)
TreeDir == (PathC :> Text(DocK1))

\* The object database: the trees a commit may hold, by object id.
TreeObjects == <<TreeNoConfig, TreeK1, TreeXY, TreeBoth, TreeBroken, TreeDir>>

\* commit.tree()
TreeOf(cms, c) == TreeObjects[cms[c].tree]

-----------------------------------------------------------------------------
(* Change aggregator: src/git/mod.rs                                       *)

\* diff_config_maps as the aggregator calls it.  The order in which the two
\* HashMaps are iterated is left to the hasher; the output does not depend
\* on it (C6), and the ascending order stands for any.
DiffConfigMaps(o, n) ==
    DiffConfigMapsIter(o, n, Ascending(DOMAIN o), Ascending(DOMAIN n))

CountKind(cs, kind) == Cardinality({i \in DOMAIN cs : cs[i].kind = kind})

\* A mutant of BuildFileChanges: a Changed key is counted as an added one
\* too.
BuildFileChangesDoubleCount(path, cs, violations) ==
    [path |-> path,
     keys_added |-> CountKind(cs, "Added") + CountKind(cs, "Changed"),
     keys_removed |-> CountKind(cs, "Removed"),
     keys_changed |-> CountKind(cs, "Changed"),
     changes |-> cs,
     violations |-> violations]

\* build_file_changes
BuildFileChanges(path, cs, violations) ==
    [path |-> path,
     keys_added |-> CountKind(cs, "Added"),
     keys_removed |-> CountKind(cs, "Removed"),
     keys_changed |-> CountKind(cs, "Changed"),
     changes |-> cs,
     violations |-> violations]

\* mod.rs lines 361-368: the loop over pf.rules, from rule i on.
RECURSIVE EvaluateRules(_, _, _, _)
EvaluateRules(rules, i, map, file_path) ==
    IF i > Len(rules) THEN <<>>
    ELSE (IF RuleAppliesToFile(rules[i], file_path)
          THEN EvaluateRule(rules[i], file_path, map)
          ELSE <<>>) \o EvaluateRules(rules, i + 1, map, file_path)

\* evaluate_policy_on_map: config_map is the Option<&HashMap>.
EvaluatePolicyOnMap(pf, config_map, file_path) ==
    IF ~pf.some THEN <<>>
    ELSE IF ~config_map.some THEN <<>>
    ELSE EvaluateRules(pf.rules, 1, config_map.map, file_path)

\* What one iteration of a loop over files yields: err (a `?` returned
\* early), the FileChanges pushed (none or one), and whether it set
\* has_violations.
FileAborted == [err |-> TRUE, files |-> <<>>, viol |-> FALSE]
FileSkipped == [err |-> FALSE, files |-> <<>>, viol |-> FALSE]
\* A mutant of FilePushed: has_violations is never set.
FilePushedNoFlag(fc) == [err |-> FALSE, files |-> <<fc>>, viol |-> FALSE]

FilePushed(fc) ==
    [err |-> FALSE, files |-> <<fc>>, viol |-> fc.violations # <<>>]

\* A mutant of LogCurrentFile: text that does not parse aborts the walk.
LogCurrentFileStrict(tree, hasParent, parentTree, pf, file_path) ==
    LET ext == ExtOf(file_path)
        new_content == GetFileContentAtCommit(tree, file_path)
        old_content == IF hasParent
                       THEN GetFileContentAtCommit(parentTree, file_path)
                       ELSE OkNone
        new_map == ParsedOption(new_content, ext)
        old_map == ParsedOption(old_content, ext)
        cs == DiffConfigMaps(old_map.map, new_map.map)
    IN  IF new_content.err \/ old_content.err THEN FileAborted
        ELSE IF new_content.some /\ ~new_map.some THEN FileAborted
        ELSE IF old_content.some /\ ~old_map.some THEN FileAborted
        ELSE IF cs = <<>> THEN FileSkipped
        ELSE FilePushed(BuildFileChanges(file_path, cs,
                            EvaluatePolicyOnMap(pf, new_map, file_path)))

\* A mutant of LogCurrentFile: a file without changes is kept.
LogCurrentFileKeepEmpty(tree, hasParent, parentTree, pf, file_path) ==
    LET ext == ExtOf(file_path)
        new_content == GetFileContentAtCommit(tree, file_path)
        old_content == IF hasParent
                       THEN GetFileContentAtCommit(parentTree, file_path)
                       ELSE OkNone
        new_map == ParsedOption(new_content, ext)
        old_map == ParsedOption(old_content, ext)
        cs == DiffConfigMaps(old_map.map, new_map.map)
    IN  IF new_content.err \/ old_content.err THEN FileAborted
        ELSE FilePushed(BuildFileChanges(file_path, cs,
                            EvaluatePolicyOnMap(pf, new_map, file_path)))

\* A mutant of LogCurrentFile: the old side is always the empty map.
LogCurrentFileNoParent(tree, hasParent, parentTree, pf, file_path) ==
    LET ext == ExtOf(file_path)
        new_content == GetFileContentAtCommit(tree, file_path)
        new_map == ParsedOption(new_content, ext)
        cs == DiffConfigMaps(EmptyMap, new_map.map)
    IN  IF new_content.err THEN FileAborted
        ELSE IF cs = <<>> THEN FileSkipped
        ELSE FilePushed(BuildFileChanges(file_path, cs,
                            EvaluatePolicyOnMap(pf, new_map, file_path)))

\* A mutant of LogCurrentFile: the policy is evaluated before the changes
\* are looked at, and a file without changes raises the flag too.
LogCurrentFileEvaluateFirst(tree, hasParent, parentTree, pf, file_path) ==
    LET ext == ExtOf(file_path)
        new_content == GetFileContentAtCommit(tree, file_path)
        old_content == IF hasParent
                       THEN GetFileContentAtCommit(parentTree, file_path)
                       ELSE OkNone
        new_map == ParsedOption(new_content, ext)
        old_map == ParsedOption(old_content, ext)
        cs == DiffConfigMaps(old_map.map, new_map.map)
        violations == EvaluatePolicyOnMap(pf, new_map, file_path)
    IN  IF new_content.err \/ old_content.err THEN FileAborted
        ELSE IF cs = <<>> THEN [FileSkipped EXCEPT !.viol = violations # <<>>]
        ELSE FilePushed(BuildFileChanges(file_path, cs, violations))

\* git_log lines 150-186: the body of the loop over config_files.
LogCurrentFile(tree, hasParent, parentTree, pf, file_path) ==
    LET ext == ExtOf(file_path)
        new_content == GetFileContentAtCommit(tree, file_path)
        old_content == IF hasParent
                       THEN GetFileContentAtCommit(parentTree, file_path)
                       ELSE OkNone
        new_map == ParsedOption(new_content, ext)
        old_map == ParsedOption(old_content, ext)
        cs == DiffConfigMaps(old_map.map, new_map.map)
    IN  IF new_content.err \/ old_content.err THEN FileAborted
        ELSE IF cs = <<>> THEN FileSkipped
        ELSE FilePushed(BuildFileChanges(file_path, cs,
                            EvaluatePolicyOnMap(pf, new_map, file_path)))

\* A mutant of LogDeletedFile: the two sides of the diff are exchanged.
LogDeletedFileSwapped(config_files, hasParent, parentTree, file_path) ==
    LET ext == ExtOf(file_path)
        content == GetFileContentAtCommit(parentTree, file_path)
        old_map == ParsedOption(content, ext)
        cs == DiffConfigMaps(EmptyMap, old_map.map)
    IN  IF \E i \in DOMAIN config_files : config_files[i] = file_path
        THEN FileSkipped
        ELSE IF ~hasParent THEN FileSkipped
        ELSE IF content.err THEN FileAborted
        ELSE IF ~old_map.some \/ cs = <<>> THEN FileSkipped
        ELSE FilePushed(BuildFileChanges(file_path, cs, <<>>))

\* git_log lines 189-207: the body of the loop over parent_config_files.
LogDeletedFile(config_files, hasParent, parentTree, file_path) ==
    LET ext == ExtOf(file_path)
        content == GetFileContentAtCommit(parentTree, file_path)
        old_map == ParsedOption(content, ext)
        cs == DiffConfigMaps(old_map.map, EmptyMap)
    IN  IF \E i \in DOMAIN config_files : config_files[i] = file_path
        THEN FileSkipped
        ELSE IF ~hasParent THEN FileSkipped
        ELSE IF content.err THEN FileAborted
        ELSE IF ~old_map.some \/ cs = <<>> THEN FileSkipped
        ELSE FilePushed(BuildFileChanges(file_path, cs, <<>>))

\* A loop over files: the results of the iterations from file i on, joined
\* up to the first that returns early.  step(f) is the loop's body.
RECURSIVE JoinFiles(_, _)
JoinFiles(results, i) ==
    IF i > Len(results) THEN FileSkipped
    ELSE IF results[i].err THEN FileAborted
    ELSE LET rest == JoinFiles(results, i + 1)
         IN  IF rest.err THEN FileAborted
             ELSE [err |-> FALSE,
                   files |-> results[i].files \o rest.files,
                   viol |-> results[i].viol \/ rest.viol]

\* commit.parent(0).ok(): the first parent, 0 if there is none.
FirstParent(cms, c) == cms[c].parents[1]

\* git_log lines 133-207: one iteration of the loop over oids, up to the
\* commit's file_changes_list.
LogCommitFiles(cms, c, filter, pf) ==
    LET tree == TreeOf(cms, c)
        config_files == ListConfigFilesInTree(tree, filter)
        parent == FirstParent(cms, c)
        hasParent == parent # 0
        parentTree == IF hasParent THEN TreeOf(cms, parent) ELSE tree
        parent_config_files ==
            IF hasParent THEN ListConfigFilesInTree(parentTree, filter) ELSE <<>>
        current == [i \in DOMAIN config_files |->
                      LogCurrentFile(tree, hasParent, parentTree, pf, config_files[i])]
        deleted == [i \in DOMAIN parent_config_files |->
                      LogDeletedFile(config_files, hasParent, parentTree,
                                     parent_config_files[i])]
    IN  JoinFiles(current \o deleted, 1)

\* models::CommitConfigChanges (author, date and message left out)
CommitConfigChanges(c, files) == [commit_hash_full |-> c, files |-> files]

\* A mutant of DiffFile: the policy is evaluated on the first ref's map.
DiffFileSourcePolicy(tree1, tree2, pf, file_path) ==
    LET ext == ExtOf(file_path)
        content1 == GetFileContentAtCommit(tree1, file_path)
        content2 == GetFileContentAtCommit(tree2, file_path)
        map1 == ParsedOption(content1, ext).map
        map2 == ParsedOption(content2, ext).map
        cs == DiffConfigMaps(map1, map2)
    IN  IF content1.err \/ content2.err THEN FileAborted
        ELSE IF cs = <<>> THEN FileSkipped
        ELSE FilePushed(BuildFileChanges(file_path, cs,
                 EvaluatePolicyOnMap(pf, [some |-> TRUE, map |-> map1], file_path)))

\* git_diff lines 274-308: the body of the loop over all_files.
DiffFile(tree1, tree2, pf, file_path) ==
    LET ext == ExtOf(file_path)
        content1 == GetFileContentAtCommit(tree1, file_path)
        content2 == GetFileContentAtCommit(tree2, file_path)
        map1 == ParsedOption(content1, ext).map
        map2 == ParsedOption(content2, ext).map
        cs == DiffConfigMaps(map1, map2)
    IN  IF content1.err \/ content2.err THEN FileAborted
        ELSE IF cs = <<>> THEN FileSkipped
        ELSE FilePushed(BuildFileChanges(file_path, cs,
                 EvaluatePolicyOnMap(pf, [some |-> TRUE, map |-> map2], file_path)))

-----------------------------------------------------------------------------
(* The repositories and command lines the aggregator is run on.            *)

NumCommits == 3
MaxLimit == 3

\* The parents of commit i, <<first, second>> with 0 for none: commit 1 is
\* the root; a later commit follows its predecessor, or (merge) merges its
\* predecessor into the commit before that.
ParentsOf(i, merge) ==
    IF i = 1 THEN <<0, 0>>
    ELSE IF i = 2 \/ ~merge THEN <<i - 1, 0>>
    ELSE <<i - 2, i - 1>>

\* Commits are numbered in commit-time order; HEAD is the last.
CommitGraphs ==
    {[i \in 1..NumCommits |->
        [parents |-> ParentsOf(i, ms[i]), time |-> i, tree |-> ts[i]]] :
        ms \in [1..NumCommits -> BOOLEAN],
        ts \in [1..NumCommits -> DOMAIN TreeObjects]}

\* The repositories git_diff is run on: a root commit and its child; a ref
\* names one of the two, or nothing.
RefGraphs ==
    {<<[parents |-> <<0, 0>>, time |-> 1, tree |-> t1],
       [parents |-> <<1, 0>>, time |-> 2, tree |-> t2]>> :
        t1, t2 \in DOMAIN TreeObjects}

HeadCommit == NumCommits

NoPattern == [some |-> FALSE, v |-> <<>>]
Pattern(glob) == [some |-> TRUE, v |-> glob]

Check(type, key) ==
    [type |-> type, key |-> key, regex |-> <<>>, values |-> <<>>, value |-> <<>>]

\* A policy: k is required everywhere, x is forbidden in *.yaml files, and
\* under d/ the value of k is "2" or nothing.
PolicyRules ==
    << [id |-> "r1", severity |-> "High", pattern |-> NoPattern,
        check |-> Check("required_key", KeyK)],
       [id |-> "r2", severity |-> "Critical",
        pattern |-> Pattern(<<"*", ".", "y", "a", "m", "l">>),
        check |-> Check("forbidden_key", KeyX)],
       [id |-> "r3", severity |-> "Medium", pattern |-> Pattern(<<"d", "/", "*">>),
        check |-> [Check("value_enum", KeyK) EXCEPT !.values = << <<"2">> >>]] >>

NoPolicy == [some |-> FALSE, rules |-> <<>>]
Policies == {NoPolicy, [some |-> TRUE, rules |-> PolicyRules]}

NoFilter == [some |-> FALSE, v |-> <<>>]
Filters == {NoFilter, [some |-> TRUE, v |-> DirD]}

NoReport == [kind |-> "none", commits_analyzed |-> 0, commits |-> <<>>,
             total_files_changed |-> 0, total_keys_added |-> 0,
             total_keys_removed |-> 0, total_keys_changed |-> 0, files |-> <<>>]

NoTotals == [added |-> 0, removed |-> 0, changed |-> 0]

LocalsInit ==
    /\ oids = <<>>
    /\ all_files = <<>>
    /\ next = 1
    /\ commit_results = <<>>
    /\ file_changes_list = <<>>
    /\ has_violations = FALSE
    /\ totals = NoTotals
    /\ report = NoReport

\* Neither git_log nor git_diff is under test.
GitIdle ==
    /\ commits = <<>>
    /\ policy_file = NoPolicy
    /\ path_filter = NoFilter
    /\ limit = 0
    /\ ref1 = 0
    /\ ref2 = 0
    /\ LocalsInit
    /\ pc = "idle"

-----------------------------------------------------------------------------
(* git_log                                                                 *)

GitLogInit ==
    /\ commits \in CommitGraphs
    /\ policy_file \in Policies
    /\ path_filter \in Filters
    /\ limit \in 0..MaxLimit
    /\ ref1 = 0
    /\ ref2 = 0
    /\ LocalsInit
    /\ pc = "log_start"

\* git_log line 128: let oids = repo::walk_commits(&repository, limit)?
LogWalk ==
    /\ pc = "log_start"
    /\ oids' = WalkCommits(commits, HeadCommit, limit)
    /\ pc' = "log_loop"
    /\ UNCHANGED <<all_files, next, commit_results, file_changes_list,
                   has_violations, totals, report>>
    /\ UNCHANGED <<dvars, fvars, repovars, evars, cvars, tvars>>

\* git_log lines 132-224: one iteration of the loop over oids.  A `?` that
\* fails returns the error from git_log: no report is output.
LogCommit ==
    /\ pc = "log_loop"
    /\ next <= Len(oids)
    /\ LET r == LogCommitFiles(commits, oids[next], path_filter, policy_file)
       IN  IF r.err
           THEN /\ pc' = "log_failed"
                /\ UNCHANGED <<next, commit_results, has_violations>>
           ELSE /\ pc' = pc
                /\ next' = next + 1
                /\ has_violations' = (has_violations \/ r.viol)
                /\ commit_results' =
                      IF r.files # <<>>
                      THEN Append(commit_results,
                                  CommitConfigChanges(oids[next], r.files))
                      ELSE commit_results
    /\ UNCHANGED <<oids, all_files, file_changes_list, totals, report>>
    /\ UNCHANGED <<dvars, fvars, repovars, evars, cvars, tvars>>

\* git_log lines 226-241: the report is built and output, has_violations
\* returned.
LogReport ==
    /\ pc = "log_loop"
    /\ next > Len(oids)
    /\ report' = [NoReport EXCEPT !.kind = "log",
                                  !.commits_analyzed = Len(commit_results),
                                  !.commits = commit_results]
    /\ pc' = "log_done"
    /\ UNCHANGED <<oids, all_files, next, commit_results, file_changes_list,
                   has_violations, totals>>
    /\ UNCHANGED <<dvars, fvars, repovars, evars, cvars, tvars>>

GitLogNext == LogWalk \/ LogCommit \/ LogReport

-----------------------------------------------------------------------------
(* git_diff                                                                *)

GitDiffInit ==
    /\ commits \in RefGraphs
    /\ policy_file \in Policies
    /\ path_filter \in Filters
    /\ limit = 0
    /\ ref1 \in 0..2
    /\ ref2 \in 0..2
    /\ LocalsInit
    /\ pc = "diff_start"

\* A mutant of UnionSorted: only the second ref's files are compared.
TargetFilesOnly(files1, files2) == CollectBTreeSet(files2, <<>>)

\* BTreeSet<String> collected from files1 chained with files2.
UnionSorted(files1, files2) == CollectBTreeSet(files1 \o files2, <<>>)

\* git_diff lines 257-272: both refs are resolved (a ref that does not
\* resolve is fatal), the two path lists are united.
DiffResolve ==
    /\ pc = "diff_start"
    /\ IF ref1 = 0 \/ ref2 = 0
       THEN /\ pc' = "diff_failed"
            /\ UNCHANGED all_files
       ELSE /\ pc' = "diff_loop"
            /\ all_files' =
                  UnionSorted(ListConfigFilesInTree(TreeOf(commits, ref1), path_filter),
                              ListConfigFilesInTree(TreeOf(commits, ref2), path_filter))
    /\ UNCHANGED <<oids, next, commit_results, file_changes_list,
                   has_violations, totals, report>>
    /\ UNCHANGED <<dvars, fvars, repovars, evars, cvars, tvars>>

\* git_diff lines 274-308: one iteration of the loop over all_files.
DiffOneFile ==
    /\ pc = "diff_loop"
    /\ next <= Len(all_files)
    /\ LET r == DiffFile(TreeOf(commits, ref1), TreeOf(commits, ref2),
                         policy_file, all_files[next])
       IN  IF r.err
           THEN /\ pc' = "diff_failed"
                /\ UNCHANGED <<next, file_changes_list, has_violations, totals>>
           ELSE /\ pc' = pc
                /\ next' = next + 1
                /\ has_violations' = (has_violations \/ r.viol)
                /\ file_changes_list' = file_changes_list \o r.files
                /\ totals' =
                      IF r.files = <<>> THEN totals
                      ELSE [added |-> totals.added + r.files[1].keys_added,
                            removed |-> totals.removed + r.files[1].keys_removed,
                            changed |-> totals.changed + r.files[1].keys_changed]
    /\ UNCHANGED <<oids, all_files, commit_results, report>>
    /\ UNCHANGED <<dvars, fvars, repovars, evars, cvars, tvars>>

\* git_diff lines 310-330: the report is built and output, has_violations
\* returned.
DiffReport ==
    /\ pc = "diff_loop"
    /\ next > Len(all_files)
    /\ report' = [NoReport EXCEPT !.kind = "diff",
                                  !.total_files_changed = Len(file_changes_list),
                                  !.total_keys_added = totals.added,
                                  !.total_keys_removed = totals.removed,
                                  !.total_keys_changed = totals.changed,
                                  !.files = file_changes_list]
    /\ pc' = "diff_done"
    /\ UNCHANGED <<oids, all_files, next, commit_results, file_changes_list,
                   has_violations, totals>>
    /\ UNCHANGED <<dvars, fvars, repovars, evars, cvars, tvars>>

GitDiffNext == DiffResolve \/ DiffOneFile \/ DiffReport

-----------------------------------------------------------------------------
(* The flattener under test: documents drawn from a bounded set.           *)

MaxArrayLen == 2

\* Field names of the generated documents: any string is a field name of a
\* JSON object, the empty string and one with a dot in it too.
InnerNames == { <<"a">>, <<"b">> }
OuterNames == { <<"a">>, <<"a", ".", "b">>, <<>> }

\* The object with the fields f (a function from names to values), its
\* entries ascending by name as serde_json's Map keeps them.
ObjOf(f) ==
    LET names == Ascending(DOMAIN f)
    IN  Obj([i \in DOMAIN names |-> Field(names[i], f[names[i]])])

ObjectsOver(names, vals) ==
    {ObjOf(f) : f \in UNION {[S -> vals] : S \in SUBSET names}}

ArraysOver(vals) ==
    {Arr(q) : q \in UNION {[1..len -> vals] : len \in 0..MaxArrayLen}}

\* Every kind of scalar; the root of a document may be one.
Scalars ==
    {Str(<<"h", "i">>), Str(<<>>), Num(0), Num(1), Num(2), Num(12), Num(-3),
     Bool(TRUE), Bool(FALSE), Null}

NestedScalars == {Num(1), Str(<<"x">>)}

Level1 ==
    NestedScalars \cup ObjectsOver(InnerNames, NestedScalars)
                  \cup ArraysOver(NestedScalars)

Level2 == ObjectsOver(OuterNames, Level1) \cup ArraysOver(Level1)

\* {"a":{"b":[1,2]}}
DocNestedArray ==
    Obj(<<Field(<<"a">>, Obj(<<Field(<<"b">>, Arr(<<Num(1), Num(2)>>))>>))>>)

\* {"servers":[{"host":"a"}]}
DocServers ==
    Obj(<<Field(<<"s", "e", "r", "v", "e", "r", "s">>,
                Arr(<<Obj(<<Field(<<"h", "o", "s", "t">>, Str(<<"a">>))>>)>>))>>)

\* {"f":false,"n":12,"m":-3,"s":"hi","t":true,"z":null}, entries by name
DocScalars ==
    Obj(<<Field(<<"f">>, Bool(FALSE)), Field(<<"m">>, Num(-3)),
          Field(<<"n">>, Num(12)), Field(<<"s">>, Str(<<"h", "i">>)),
          Field(<<"t">>, Bool(TRUE)), Field(<<"z">>, Null)>>)

FlattenDocs ==
    Scalars \cup Level1 \cup Level2 \cup {DocNestedArray, DocServers, DocScalars}

\* The flattener is not under test.
FlatIdle ==
    /\ doc = Null
    /\ flat = EmptyMap
    /\ fpc = "idle"

FlatInit ==
    /\ doc \in FlattenDocs
    /\ flat = EmptyMap
    /\ fpc = "start"

\* parser.rs lines 29-31: let mut map = HashMap::new(); flatten("", &value, &mut map)
FlattenCall ==
    /\ fpc = "start"
    /\ flat' = Flatten(<<>>, doc, EmptyMap)
    /\ fpc' = "done"
    /\ UNCHANGED doc
    /\ UNCHANGED <<dvars, repovars, gvars, evars, cvars, tvars>>

FlatNext == FlattenCall


-----------------------------------------------------------------------------
(* The differ under test: inputs drawn from bounded sets.                  *)

\* Keys the differ's input maps draw from: the first MaxDiffKeys of these.
DiffKeyList ==
    << <<"a">>, <<"z">>, <<"a", ".", "b">>, <<"a", "[", "0", "]">>, <<"b">> >>

MaxDiffKeys == 3

DiffKeys == {DiffKeyList[i] : i \in 1..MaxDiffKeys}

DiffValues == { <<"1">>, <<"2">> }

\* Every flat map over the keys K.
MapsOver(K, V) == UNION {[S -> V] : S \in SUBSET K}

\* Every order in which a set of keys can be iterated.
Orders(S) ==
    {q \in [1..Cardinality(S) -> S] : \A i, j \in DOMAIN q : i # j => q[i] # q[j]}

\* The differ is not under test.
DiffIdle ==
    /\ old = EmptyMap
    /\ new = EmptyMap
    /\ oldIter = <<>>
    /\ newIter = <<>>
    /\ changes = <<>>
    /\ rchanges = <<>>
    /\ dpc = {}

DiffInit ==
    /\ old \in MapsOver(DiffKeys, DiffValues)
    /\ new \in MapsOver(DiffKeys, DiffValues)
    /\ oldIter \in Orders(DOMAIN old)
    /\ newIter \in Orders(DOMAIN new)
    /\ changes = <<>>
    /\ rchanges = <<>>
    /\ dpc = {}

\* let changes = diff_config_maps(&old, &new);
DiffCall ==
    /\ "fwd" \notin dpc
    /\ changes' = DiffConfigMapsIter(old, new, oldIter, newIter)
    /\ dpc' = dpc \cup {"fwd"}
    /\ UNCHANGED <<old, new, oldIter, newIter, rchanges>>
    /\ UNCHANGED <<fvars, repovars, gvars, evars, cvars, tvars>>

\* let rchanges = diff_config_maps(&new, &old);
DiffCallSwapped ==
    /\ "rev" \notin dpc
    /\ rchanges' = DiffConfigMapsIter(new, old, newIter, oldIter)
    /\ dpc' = dpc \cup {"rev"}
    /\ UNCHANGED <<old, new, oldIter, newIter, changes>>
    /\ UNCHANGED <<fvars, repovars, gvars, evars, cvars, tvars>>

DiffNext == DiffCall \/ DiffCallSwapped


-----------------------------------------------------------------------------
(* The rule engine under test: inputs drawn from bounded sets.             *)

\* Keys the flat maps draw from: the first MaxRuleKeys of these.
RuleKeyList ==
    << <<"l", "o", "g", "g", "i", "n", "g", ".", "l", "e", "v", "e", "l">>,
       <<"l", "e", "v", "e", "l">>,
       <<"l", "o", "g", "g", "i", "n", "g", "x">>,
       <<"l", "o", "g", "g", "i", "n", "g">> >>

MaxRuleKeys == 3

MapKeys == {RuleKeyList[i] : i \in 1..MaxRuleKeys}

Info == <<"i", "n", "f", "o">>
Debug == <<"d", "e", "b", "u", "g">>
Warn == <<"w", "a", "r", "n">>

MapValues == {Info, Debug}

\* The keys rules are about.
RuleKeys == { <<"l", "o", "g", "g", "i", "n", "g">>, <<"l", "e", "v", "e", "l">> }

Regexes == { <<"i", "n", "f">>, <<"^", "n", "f", "o">>, <<"n", "f", "o", "$">>, <<"^", "d", ".", "b", "u", "g", "$">> }

EnumLists == { <<Info, Warn>>, <<Warn, Info>>, <<Debug>>, <<>> }

Checks ==
    {Check("required_key", k) : k \in RuleKeys}
    \cup {Check("forbidden_key", k) : k \in RuleKeys}
    \cup {[Check("value_match", k) EXCEPT !.regex = re] :
            k \in RuleKeys, re \in Regexes}
    \cup {[Check("value_enum", k) EXCEPT !.values = vs] :
            k \in RuleKeys, vs \in EnumLists}
    \cup {[Check("forbidden_value", k) EXCEPT !.value = v] :
            k \in RuleKeys, v \in MapValues}

GlobPatterns ==
    { NoPattern,
      Pattern(<<"*", ".", "y", "a", "m", "l">>),
      Pattern(<<"c", "o", "n", "f", "i", "g", ".", "y", "*">>),
      Pattern(<<"a", "/", "*">>),
      Pattern(<<"*", "*", "/", "c", "o", "n", "f", "i", "g", ".", "y", "a", "m", "l">>) }

FilePaths ==
    { <<"c", "o", "n", "f", "i", "g", ".", "y", "a", "m", "l">>,
      <<"a", "/", "b", "/", "c", "o", "n", "f", "i", "g", ".", "y", "a", "m", "l">>,
      <<"c", "o", "n", "f", "i", "g", ".", "j", "s", "o", "n">>,
      <<"a", "/", "c", "o", "n", "f", "i", "g", ".", "j", "s", "o", "n">> }

NoViolation == <<>>

\* The rule engine is not under test.
RulesIdle ==
    /\ erule = [id |-> "r", severity |-> "Low", pattern |-> NoPattern,
                check |-> Check("required_key", <<>>)]
    /\ emap = EmptyMap
    /\ epath = <<>>
    /\ eapplies = FALSE
    /\ eviolation = NoViolation
    /\ erequired = NoViolation
    /\ eforbidden = NoViolation
    /\ epc = "idle"

RulesInit ==
    /\ erule \in {[id |-> "r", severity |-> "Low", pattern |-> pt, check |-> ck] :
                    pt \in GlobPatterns, ck \in Checks}
    /\ emap \in MapsOver(MapKeys, MapValues)
    /\ epath \in FilePaths
    /\ eapplies = FALSE
    /\ eviolation = NoViolation
    /\ erequired = NoViolation
    /\ eforbidden = NoViolation
    /\ epc = "start"

\* let applies = rule_applies_to_file(&rule, path);
RuleAppliesCall ==
    /\ epc = "start"
    /\ eapplies' = RuleAppliesToFile(erule, epath)
    /\ epc' = "applied"
    /\ UNCHANGED <<erule, emap, epath, eviolation, erequired, eforbidden>>
    /\ UNCHANGED <<dvars, fvars, repovars, gvars, cvars, tvars>>

\* let result = evaluate_rule(&rule, path, &map);
EvaluateRuleCall ==
    /\ epc = "applied"
    /\ eviolation' = EvaluateRule(erule, epath, emap)
    /\ epc' = "evaluated"
    /\ UNCHANGED <<erule, emap, epath, eapplies, erequired, eforbidden>>
    /\ UNCHANGED <<dvars, fvars, repovars, gvars, cvars, tvars>>

\* evaluate_rule on a RequiredKey and on a ForbiddenKey rule of the same
\* key, against the same map.
EvaluateKeyRules ==
    /\ epc = "evaluated"
    /\ erequired' = EvaluateRule(
          [erule EXCEPT !.check = Check("required_key", erule.check.key)],
          epath, emap)
    /\ eforbidden' = EvaluateRule(
          [erule EXCEPT !.check = Check("forbidden_key", erule.check.key)],
          epath, emap)
    /\ epc' = "done"
    /\ UNCHANGED <<erule, emap, epath, eapplies, eviolation>>
    /\ UNCHANGED <<dvars, fvars, repovars, gvars, cvars, tvars>>

RulesNext == RuleAppliesCall \/ EvaluateRuleCall \/ EvaluateKeyRules

-----------------------------------------------------------------------------
(* The directory check: src/policy/evaluator.rs evaluate_policy            *)

\* parse_config_file: read_to_string fails on a file that is not UTF-8;
\* the extension picks the parser, an extension of none of the three
\* families is unsupported; the parsed document is flattened from "".
ParseConfigFile(content, path) ==
    IF ~content.utf8 THEN ParseError
    ELSE IF ExtOf(path) \notin ConfigExtensions THEN ParseError
    ELSE IF ~content.wellformed THEN ParseError
    ELSE ParseOk(Flatten(<<>>, content.doc, EmptyMap))

\* evaluator.rs lines 36-51: the loop over policy.rules, from rule i on.
RECURSIVE FileViolations(_, _, _, _)
FileViolations(rules, i, flat_map, file_path) ==
    IF i > Len(rules) THEN <<>>
    ELSE (IF RuleAppliesToFile(rules[i], file_path)
          THEN EvaluateRule(rules[i], file_path, flat_map)
          ELSE <<>>) \o FileViolations(rules, i + 1, flat_map, file_path)

Severities == {"Critical", "High", "Medium", "Low"}

CountSeverity(violations, severity) ==
    Cardinality({i \in DOMAIN violations : violations[i].severity = severity})

\* A second policy: the value "1" of k is forbidden everywhere, in a.* files
\* the value of k is to match ^2$, and x is forbidden in json files at any
\* depth.
PolicyRules2 ==
    << [id |-> "r4", severity |-> "Low", pattern |-> NoPattern,
        check |-> [Check("forbidden_value", KeyK) EXCEPT !.value = <<"1">>]],
       [id |-> "r5", severity |-> "High", pattern |-> Pattern(<<"a", ".", "*">>),
        check |-> [Check("value_match", KeyK) EXCEPT !.regex = <<"^", "2", "$">>]],
       [id |-> "r6", severity |-> "Critical",
        pattern |-> Pattern(<<"*", "*", "/", "*", ".", "j", "s", "o", "n">>),
        check |-> Check("forbidden_key", KeyX)] >>

CheckPolicies == {[rules |-> PolicyRules], [rules |-> PolicyRules2]}

\* The directories evaluate_policy is run on: each of three paths holds
\* nothing or a file.
CheckPaths == {PathA, PathB, PathN}
CheckContents == {Text(DocK1), Text(DocXY), Text(DocK2XY), Malformed, Binary}
CheckDirs == UNION {[P -> CheckContents] : P \in SUBSET CheckPaths}

NoCounts == [sev \in Severities |-> 0]

NoPolicyReport ==
    [total_files_checked |-> 0, files_with_violations |-> 0,
     total_violations |-> 0, critical_count |-> 0, high_count |-> 0,
     medium_count |-> 0, low_count |-> 0, files |-> <<>>]

\* evaluate_policy is not under test.
CheckIdle ==
    /\ walk_dir = EmptyMap
    /\ policy = [rules |-> <<>>]
    /\ visited = {}
    /\ total_files = 0
    /\ severity_counts = NoCounts
    /\ all_file_violations = <<>>
    /\ policy_report = NoPolicyReport
    /\ cpc = "idle"

\* evaluator.rs lines 14-19
CheckInit ==
    /\ walk_dir \in CheckDirs
    /\ policy \in CheckPolicies
    /\ visited = {}
    /\ total_files = 0
    /\ severity_counts = NoCounts
    /\ all_file_violations = <<>>
    /\ policy_report = NoPolicyReport
    /\ cpc = "walking"

\* evaluator.rs lines 21-60: one iteration of the loop over the entries of
\* the walk, which WalkDir yields in the order of the file system.
CheckFile ==
    /\ cpc = "walking"
    /\ \E file_path \in DOMAIN walk_dir \ visited :
          /\ visited' = visited \cup {file_path}
          /\ IF ~IsConfig(file_path)
             THEN UNCHANGED <<total_files, severity_counts, all_file_violations>>
             ELSE /\ total_files' = total_files + 1
                  /\ LET parsed == ParseConfigFile(walk_dir[file_path], file_path)
                         violations == FileViolations(policy.rules, 1, parsed.map,
                                                      file_path)
                     IN  IF ~parsed.ok
                         THEN UNCHANGED <<severity_counts, all_file_violations>>
                         ELSE /\ severity_counts' =
                                    [sev \in Severities |->
                                        severity_counts[sev]
                                        + CountSeverity(violations, sev)]
                              /\ all_file_violations' =
                                    IF violations # <<>>
                                    THEN Append(all_file_violations,
                                                [path |-> file_path,
                                                 violations |-> violations])
                                    ELSE all_file_violations
    /\ UNCHANGED <<walk_dir, policy, policy_report, cpc>>
    /\ UNCHANGED <<dvars, fvars, repovars, gvars, evars, tvars>>

\* evaluator.rs lines 62-76
CheckReport ==
    /\ cpc = "walking"
    /\ visited = DOMAIN walk_dir
    /\ policy_report' =
          [total_files_checked |-> total_files,
           files_with_violations |-> Len(all_file_violations),
           total_violations |-> severity_counts["Critical"] + severity_counts["High"]
                                + severity_counts["Medium"] + severity_counts["Low"],
           critical_count |-> severity_counts["Critical"],
           high_count |-> severity_counts["High"],
           medium_count |-> severity_counts["Medium"],
           low_count |-> severity_counts["Low"],
           files |-> all_file_violations]
    /\ cpc' = "check_done"
    /\ UNCHANGED <<walk_dir, policy, visited, total_files, severity_counts,
                   all_file_violations>>
    /\ UNCHANGED <<dvars, fvars, repovars, gvars, evars, tvars>>

CheckNext == CheckFile \/ CheckReport

-----------------------------------------------------------------------------
(* list_config_files_in_tree under test: trees and filters drawn from      *)
(* bounded sets.                                                           *)

\* The blobs a tree may hold: config files at the top, in a directory and
\* below it, a file that is no config file, and a directory and a file
\* whose names start with the name of directory d.
ListPaths ==
    { <<"a", ".", "y", "a", "m", "l">>, <<"d", "/", "b", ".", "j", "s", "o", "n">>, <<"d", "/", "e", "/", "f", ".", "t", "o", "m", "l">>,
      <<"d", "/", "n", ".", "t", "x", "t">>, <<"d", "x", "/", "g", ".", "y", "m", "l">>, <<"d", ".", "y", "m", "l">> }

ListTrees == {[q \in paths |-> Malformed] : paths \in SUBSET ListPaths}

\* No filter; directories (with and without the trailing separator),
\* files, and names that may be in the tree or not.
ListFilters ==
    {NoFilter} \cup
    {[some |-> TRUE, v |-> f] :
        f \in { <<"d">>, <<"d", "/">>, <<"d", "/", "e">>, <<"d", "x">>, <<"a", ".", "y", "a", "m", "l">>,
                <<"d", "/", "b", ".", "j", "s", "o", "n">>, <<"d", "/", "n", ".", "t", "x", "t">>, <<"d", "/", "e", "/", "f", ".", "t", "o", "m", "l">>, <<"z", "z">>, <<>> }}

ListIdle ==
    /\ list_tree = <<>>
    /\ list_filter = NoFilter
    /\ listed_files = <<>>
    /\ list_pc = "idle"

ListInit ==
    /\ list_tree \in ListTrees
    /\ list_filter \in ListFilters
    /\ listed_files = <<>>
    /\ list_pc = "start"

\* let files = list_config_files_in_tree(&repository, &tree, path_filter)?
ListCall ==
    /\ list_pc = "start"
    /\ listed_files' = ListConfigFilesInTree(list_tree, list_filter)
    /\ list_pc' = "returned"
    /\ UNCHANGED <<list_tree, list_filter>>
    /\ UNCHANGED <<dvars, fvars, repovars, gvars, evars, cvars, pvars, colvars>>

ListNext == ListCall

-----------------------------------------------------------------------------
(* parse_config_file under test: paths and contents drawn from bounded     *)
(* sets.                                                                   *)

\* The extensions of the files parsed: the four config extensions, the
\* same in other letter cases, and one of no config format.
ParseExtensions ==
    ConfigExtensions \cup
    { <<"Y", "A", "M", "L">>, <<"Y", "m", "l">>, <<"J", "s", "o", "n">>, <<"J", "S", "O", "N">>, <<"T", "O", "M", "L">>, <<"t", "x", "t">> }

\* A file at the top or in a directory, with an extension or without.
ParsePaths ==
    {stem \o <<".">> \o e : stem \in {<<"c">>, <<"d", "/", "c">>}, e \in ParseExtensions}
    \cup {<<"c">>}

ParseContents == {Text(DocK1), Text(DocXY), Text(DocK2XY), Malformed, Binary}

ParseIdle ==
    /\ parse_path = <<>>
    /\ parse_content = Binary
    /\ parse_format = "none"
    /\ parse_result = ParseError
    /\ parse_pc = "idle"

ParseInit ==
    /\ parse_path \in ParsePaths
    /\ parse_content \in ParseContents
    /\ parse_format = "none"
    /\ parse_result = ParseError
    /\ parse_pc = "start"

\* let flat_map = parse_config_file(path)
ParseCall ==
    /\ parse_pc = "start"
    /\ parse_format' = ConfigFormat(ExtOf(parse_path))
    /\ parse_result' = ParseConfigFile(parse_content, parse_path)
    /\ parse_pc' = "returned"
    /\ UNCHANGED <<parse_path, parse_content>>
    /\ UNCHANGED <<dvars, fvars, repovars, gvars, evars, cvars, lvars, colvars>>

ParseNext == ParseCall

-----------------------------------------------------------------------------
(* collect_log: src/git/mod.rs lines 14-114                                *)

\* A mutant of CollectCurrentFile: the file is diffed against nothing.
CollectCurrentFileNoParent(tree, hasParent, parentTree, file_path) ==
    LET ext == ExtOf(file_path)
        new_content == GetFileContentAtCommit(tree, file_path)
        new_map == ParsedOption(new_content, ext)
        cs == DiffConfigMaps(EmptyMap, new_map.map)
    IN  IF new_content.err THEN FileAborted
        ELSE IF cs = <<>> THEN FileSkipped
        ELSE FilePushed(BuildFileChanges(file_path, cs, <<>>))

\* collect_log lines 35-65: the body of the loop over config_files.
CollectCurrentFile(tree, hasParent, parentTree, file_path) ==
    LET ext == ExtOf(file_path)
        new_content == GetFileContentAtCommit(tree, file_path)
        old_content == IF hasParent
                       THEN GetFileContentAtCommit(parentTree, file_path)
                       ELSE OkNone
        new_map == ParsedOption(new_content, ext)
        old_map == ParsedOption(old_content, ext)
        cs == DiffConfigMaps(old_map.map, new_map.map)
    IN  IF new_content.err \/ old_content.err THEN FileAborted
        ELSE IF cs = <<>> THEN FileSkipped
        ELSE FilePushed(BuildFileChanges(file_path, cs, <<>>))

\* collect_log lines 68-86: the body of the loop over parent_config_files.
CollectDeletedFile(config_files, hasParent, parentTree, file_path) ==
    LET ext == ExtOf(file_path)
        content == GetFileContentAtCommit(parentTree, file_path)
        old_map == ParsedOption(content, ext)
        cs == DiffConfigMaps(old_map.map, EmptyMap)
    IN  IF \E i \in DOMAIN config_files : config_files[i] = file_path
        THEN FileSkipped
        ELSE IF ~hasParent THEN FileSkipped
        ELSE IF content.err THEN FileAborted
        ELSE IF ~old_map.some \/ cs = <<>> THEN FileSkipped
        ELSE FilePushed(BuildFileChanges(file_path, cs, <<>>))

\* collect_log lines 20-86: one iteration of the loop over oids, up to the
\* commit's file_changes_list.
CollectCommitFiles(cms, c, filter) ==
    LET tree == TreeOf(cms, c)
        config_files == ListConfigFilesInTree(tree, filter)
        parent == FirstParent(cms, c)
        hasParent == parent # 0
        parentTree == IF hasParent THEN TreeOf(cms, parent) ELSE tree
        parent_config_files ==
            IF hasParent THEN ListConfigFilesInTree(parentTree, filter) ELSE <<>>
        current == [i \in DOMAIN config_files |->
                      CollectCurrentFile(tree, hasParent, parentTree, config_files[i])]
        deleted == [i \in DOMAIN parent_config_files |->
                      CollectDeletedFile(config_files, hasParent, parentTree,
                                         parent_config_files[i])]
    IN  JoinFiles(current \o deleted, 1)

\* Result<GitLogReport>
CollectFailed == [err |-> TRUE, report |-> NoReport]
CollectOk(r) == [err |-> FALSE, report |-> r]

\* collect_log lines 19-113: the loop over oids from position i on, with
\* the commit_results gathered so far, and the report returned after it.
RECURSIVE CollectLoop(_, _, _, _, _)
CollectLoop(cms, ids, i, filter, results) ==
    IF i > Len(ids)
    THEN CollectOk([NoReport EXCEPT !.kind = "log",
                                    !.commits_analyzed = Len(results),
                                    !.commits = results])
    ELSE LET r == CollectCommitFiles(cms, ids[i], filter)
         IN  IF r.err THEN CollectFailed
             ELSE CollectLoop(cms, ids, i + 1, filter,
                              IF r.files # <<>>
                              THEN Append(results, CommitConfigChanges(ids[i], r.files))
                              ELSE results)

\* collect_log
CollectLog(cms, head, filter, lim) ==
    CollectLoop(cms, WalkCommits(cms, head, lim), 1, filter, <<>>)

\* collect_log is not called.
CollectIdle ==
    /\ collected = CollectFailed
    /\ collect_pc = "idle"

CollectInit ==
    /\ collected = CollectFailed
    /\ collect_pc = "start"

\* let history = collect_log(path_filter, limit), on the repository as it
\* is.
CollectLogCall ==
    /\ collect_pc = "start"
    /\ collected' = CollectLog(commits, HeadCommit, path_filter, limit)
    /\ collect_pc' = "returned"
    /\ UNCHANGED <<dvars, fvars, repovars, gvars, evars, cvars, lvars, pvars>>

\* None of the functions under test is called.
TestIdle == ListIdle /\ ParseIdle /\ CollectIdle

-----------------------------------------------------------------------------
(* Key rules on a parsed document: evaluate_rule on the map flatten built  *)

\* The keys of which some key of the map is a continuation: what a key of
\* the map reads up to one of its dots or opening brackets.
ParentKeys(m) ==
    UNION {{SubSeq(key, 1, i - 1) :
               i \in {j \in DOMAIN key : key[j] \in {".", "["}}} :
           key \in DOMAIN m}

\* evaluator.rs lines 28-45 for one file and one key: the flat map that
\* parse_config_file returned is handed to evaluate_rule, for a RequiredKey
\* and a ForbiddenKey rule on the key.
EvaluateParentKey ==
    /\ fpc = "done"
    /\ epc = "idle"
    /\ \E k \in ParentKeys(flat) :
          /\ erule' = [erule EXCEPT !.check = Check("required_key", k)]
          /\ erequired' = EvaluateRule(
                [erule EXCEPT !.check = Check("required_key", k)], PathA, flat)
          /\ eforbidden' = EvaluateRule(
                [erule EXCEPT !.check = Check("forbidden_key", k)], PathA, flat)
    /\ emap' = flat
    /\ epath' = PathA
    /\ epc' = "done"
    /\ UNCHANGED <<eapplies, eviolation>>
    /\ UNCHANGED <<dvars, fvars, repovars, gvars, cvars, tvars>>

-----------------------------------------------------------------------------
(* Specifications: one per operation under test, and the commands that     *)
(* evaluate a policy taken together.                                       *)

DifferInit == DiffInit /\ FlatIdle /\ GitIdle /\ RulesIdle /\ CheckIdle /\ TestIdle
SpecDiffer == DifferInit /\ [][DiffNext]_vars

FlattenInit == FlatInit /\ DiffIdle /\ GitIdle /\ RulesIdle /\ CheckIdle /\ TestIdle
SpecFlatten == FlattenInit /\ [][FlatNext]_vars

LogInit == GitLogInit /\ DiffIdle /\ FlatIdle /\ RulesIdle /\ CheckIdle /\ TestIdle
SpecGitLog == LogInit /\ [][GitLogNext]_vars

RefDiffInit == GitDiffInit /\ DiffIdle /\ FlatIdle /\ RulesIdle /\ CheckIdle /\ TestIdle
SpecGitDiff == RefDiffInit /\ [][GitDiffNext]_vars

RuleEngineInit == RulesInit /\ DiffIdle /\ FlatIdle /\ GitIdle /\ CheckIdle /\ TestIdle
SpecRules == RuleEngineInit /\ [][RulesNext]_vars

PolicyCheckInit == CheckInit /\ DiffIdle /\ FlatIdle /\ GitIdle /\ RulesIdle /\ TestIdle
SpecPolicyCheck == PolicyCheckInit /\ [][CheckNext]_vars

ListingInit ==
    ListInit /\ ParseIdle /\ CollectIdle
    /\ DiffIdle /\ FlatIdle /\ GitIdle /\ RulesIdle /\ CheckIdle
SpecList == ListingInit /\ [][ListNext]_vars

\* parse_config_file and evaluate_rule on the parents of its keys
ParentKeysInit ==
    FlatInit /\ DiffIdle /\ GitIdle /\ RulesIdle /\ CheckIdle /\ TestIdle
ParentKeysNext == FlattenCall \/ EvaluateParentKey
SpecParentKeys == ParentKeysInit /\ [][ParentKeysNext]_vars

ParsingInit ==
    ParseInit /\ ListIdle /\ CollectIdle
    /\ DiffIdle /\ FlatIdle /\ GitIdle /\ RulesIdle /\ CheckIdle
SpecParse == ParsingInit /\ [][ParseNext]_vars

\* git_log and collect_log on one repository
LogsInit ==
    GitLogInit /\ CollectInit /\ ListIdle /\ ParseIdle
    /\ DiffIdle /\ FlatIdle /\ RulesIdle /\ CheckIdle
LogsNext == GitLogNext \/ CollectLogCall
SpecLogs == LogsInit /\ [][LogsNext]_vars

\* git_log and git_diff
GitInit == LogInit \/ RefDiffInit
GitNext == GitLogNext \/ GitDiffNext
SpecGit == GitInit /\ [][GitNext]_vars

\* git_log, git_diff and evaluate_policy
EvaluationsInit == LogInit \/ RefDiffInit \/ PolicyCheckInit
EvaluationsNext == GitLogNext \/ GitDiffNext \/ CheckNext
SpecEvaluations == EvaluationsInit /\ [][EvaluationsNext]_vars

-----------------------------------------------------------------------------
(* Claims about diff_config_maps                                           *)

DiffUnion == DOMAIN old \cup DOMAIN new

\* The entries of a change list that carry the key k.
EntriesFor(cs, k) == {i \in DOMAIN cs : cs[i].key = k}

\* C3: diff_config_maps(old, new) has exactly one entry for every key of
\* the union that is in only one map or has different values, and none for
\* a key with equal values: a key only in new gives Added (old_value None,
\* new_value Some(new[key])), a key only in old gives Removed (old_value
\* Some(old[key]), new_value None), a key in both with differing values
\* gives Changed with both values Some and different.
C3_DiffEntries ==
    "fwd" \in dpc =>
        /\ \A i \in DOMAIN changes : changes[i].key \in DiffUnion
        /\ \A k \in DiffUnion :
              LET es == EntriesFor(changes, k)
              IN  IF k \notin DOMAIN old
                  THEN /\ Cardinality(es) = 1
                       /\ \A i \in es :
                            /\ changes[i].kind = "Added"
                            /\ changes[i].old_value = None
                            /\ changes[i].new_value = Some(new[k])
                  ELSE IF k \notin DOMAIN new
                  THEN /\ Cardinality(es) = 1
                       /\ \A i \in es :
                            /\ changes[i].kind = "Removed"
                            /\ changes[i].old_value = Some(old[k])
                            /\ changes[i].new_value = None
                  ELSE IF old[k] # new[k]
                  THEN /\ Cardinality(es) = 1
                       /\ \A i \in es :
                            /\ changes[i].kind = "Changed"
                            /\ changes[i].old_value = Some(old[k])
                            /\ changes[i].new_value = Some(new[k])
                            /\ changes[i].old_value # changes[i].new_value
                  ELSE es = {}

C3_Witness ==
    /\ "fwd" \in dpc
    /\ \E i \in DOMAIN changes : changes[i].kind = "Added"
    /\ \E i \in DOMAIN changes : changes[i].kind = "Removed"
    /\ \E k \in DOMAIN old \cap DOMAIN new :
          old[k] = new[k] /\ EntriesFor(changes, k) = {}

\* The mirror image of one KeyChange.
Mirror(c) ==
    [key |-> c.key,
     kind |-> IF c.kind = "Added" THEN "Removed"
              ELSE IF c.kind = "Removed" THEN "Added" ELSE "Changed",
     old_value |-> c.new_value,
     new_value |-> c.old_value]

\* C4: diff_config_maps(A,B) and diff_config_maps(B,A) have the same length
\* and the same keys in the same order and are mirror images entry by
\* entry: Added <-> Removed with the value moved to the other side, Changed
\* <-> Changed with old_value and new_value swapped.
C4_DiffMirror ==
    dpc = {"fwd", "rev"} =>
        /\ Len(changes) = Len(rchanges)
        /\ \A i \in DOMAIN changes :
              /\ rchanges[i].key = changes[i].key
              /\ rchanges[i] = Mirror(changes[i])
              /\ changes[i].kind = "Changed" =>
                    /\ rchanges[i].kind = "Changed"
                    /\ rchanges[i].old_value = Some(new[changes[i].key])
                    /\ rchanges[i].new_value = Some(old[changes[i].key])

C4_Witness ==
    /\ dpc = {"fwd", "rev"}
    /\ Len(changes) = 3
    /\ changes[1].kind = "Added" /\ rchanges[1].kind = "Removed"
    /\ changes[2].kind = "Changed" /\ rchanges[2].kind = "Changed"
    /\ changes[3].kind = "Removed" /\ rchanges[3].kind = "Added"

\* C5: for every flat map A (the empty map included), diff_config_maps(A, A)
\* is the empty sequence.
C5_DiffSelfEmpty ==
    ("fwd" \in dpc /\ old = new) => changes = <<>>

C5_Witness ==
    /\ "fwd" \in dpc
    /\ old = new
    /\ Cardinality(DOMAIN old) = MaxDiffKeys
    /\ oldIter # newIter
    /\ changes = <<>>

\* C6: the keys of diff_config_maps(old, new) are in strictly ascending
\* lexicographic order (so no key occurs twice), and the output is the same
\* whatever the iteration order of the two input maps: whatever oldIter and
\* newIter are, it is the output for the maps iterated in ascending order.
C6_DiffSorted ==
    "fwd" \in dpc =>
        /\ \A i \in 1..(Len(changes) - 1) :
              StrLess(changes[i].key, changes[i + 1].key)
        /\ changes = DiffConfigMapsIter(old, new, Ascending(DOMAIN old),
                                         Ascending(DOMAIN new))

\* Both maps are iterated in descending key order and the output ascends.
C6_Witness ==
    /\ "fwd" \in dpc
    /\ Len(changes) = MaxDiffKeys
    /\ Len(oldIter) >= 2
    /\ \A i \in 1..(Len(oldIter) - 1) : StrLess(oldIter[i + 1], oldIter[i])
    /\ Len(newIter) >= 2
    /\ \A i \in 1..(Len(newIter) - 1) : StrLess(newIter[i + 1], newIter[i])
    /\ \A i \in 1..(Len(changes) - 1) :
          StrLess(changes[i].key, changes[i + 1].key)

-----------------------------------------------------------------------------
(* Claims about flatten                                                    *)

\* The scalar leaves of a document, each named by its path: the positions,
\* among the kids, of the nodes from the root down to it.
RECURSIVE LeafPaths(_)
LeafPaths(v) ==
    IF IsScalar(v) THEN {<<>>}
    ELSE UNION {{<<i>> \o q : q \in LeafPaths(v.kids[i].val)} : i \in DOMAIN v.kids}

\* The object and array nodes of a document, by path.
RECURSIVE InteriorPaths(_)
InteriorPaths(v) ==
    IF IsScalar(v) THEN {}
    ELSE {<<>>} \cup
         UNION {{<<i>> \o q : q \in InteriorPaths(v.kids[i].val)} : i \in DOMAIN v.kids}

RECURSIVE NodeAt(_, _)
NodeAt(v, path) ==
    IF path = <<>> THEN v ELSE NodeAt(v.kids[Head(path)].val, Tail(path))

\* The key of the node at a path as the claim builds it: a field appends
\* '.field', without the dot at the top level (top: the node is the root);
\* an element appends '[index]', 0-based.
RECURSIVE TopLevelKey(_, _, _, _)
TopLevelKey(v, path, key, top) ==
    IF path = <<>> THEN key
    ELSE LET kid == v.kids[Head(path)]
             step == IF v.kind = "object"
                     THEN IF top THEN kid.name ELSE <<".">> \o kid.name
                     ELSE <<"[">> \o NatToString(Head(path) - 1) \o <<"]">>
         IN  TopLevelKey(kid.val, Tail(path), key \o step, FALSE)

\* The same, the dot left out when the key built so far is empty.
RECURSIVE EmptyPrefixKey(_, _, _)
EmptyPrefixKey(v, path, key) ==
    IF path = <<>> THEN key
    ELSE LET kid == v.kids[Head(path)]
             step == IF v.kind = "object"
                     THEN IF key = <<>> THEN kid.name ELSE <<".">> \o kid.name
                     ELSE <<"[">> \o NatToString(Head(path) - 1) \o <<"]">>
         IN  EmptyPrefixKey(kid.val, Tail(path), key \o step)

\* The canonical text of the scalars of the model, written out.
CanonicalText(v) ==
    CASE v.kind = "string" -> v.s
      [] v.kind = "null" -> <<"n", "u", "l", "l">>
      [] v.kind = "bool" /\ v.b -> <<"t", "r", "u", "e">>
      [] v.kind = "bool" /\ ~v.b -> <<"f", "a", "l", "s", "e">>
      [] v.kind = "number" /\ v.n = 0 -> <<"0">>
      [] v.kind = "number" /\ v.n = 1 -> <<"1">>
      [] v.kind = "number" /\ v.n = 2 -> <<"2">>
      [] v.kind = "number" /\ v.n = 12 -> <<"1", "2">>
      [] v.kind = "number" /\ v.n = -3 -> <<"-", "3">>

\* {"a.b[0]":"1", "a.b[1]":"2"}
FlatNestedArray ==
    (<<"a", ".", "b", "[", "0", "]">> :> <<"1">>) @@
    (<<"a", ".", "b", "[", "1", "]">> :> <<"2">>)

\* {"servers[0].host":"a"}
FlatServers ==
    (<<"s", "e", "r", "v", "e", "r", "s", "[", "0", "]", ".", "h", "o", "s", "t">>
        :> <<"a">>)

FlatScalars ==
    (<<"f">> :> <<"f", "a", "l", "s", "e">>) @@ (<<"m">> :> <<"-", "3">>) @@
    (<<"n">> :> <<"1", "2">>) @@ (<<"s">> :> <<"h", "i">>) @@
    (<<"t">> :> <<"t", "r", "u", "e">>) @@ (<<"z">> :> <<"n", "u", "l", "l">>)

FlattenExamples ==
    /\ doc = DocNestedArray => flat = FlatNestedArray
    /\ doc = DocServers => flat = FlatServers
    /\ doc = DocScalars => flat = FlatScalars

C8_OneEntryPerLeaf ==
    fpc = "done" =>
        /\ Cardinality(DOMAIN flat) = Cardinality(LeafPaths(doc))
        /\ \A q, r \in LeafPaths(doc) :
              q # r => EmptyPrefixKey(doc, q, <<>>) # EmptyPrefixKey(doc, r, <<>>)
        /\ \A k \in DOMAIN flat :
              \A q \in InteriorPaths(doc) : EmptyPrefixKey(doc, q, <<>>) # k

-----------------------------------------------------------------------------
(* Claims about the history walk and the ref-to-ref diff                   *)

\* flat(T, f): the flat map of path f in tree T; the empty map when f is
\* absent, not UTF-8 text, or does not parse.
FlatOf(tree, f) ==
    IF f \in DOMAIN tree /\ tree[f].utf8 /\ tree[f].wellformed
    THEN Flatten(<<>>, tree[f].doc, EmptyMap)
    ELSE EmptyMap

\* The config path set of a tree under the command's path filter.
ConfigPaths(tree) ==
    {f \in DOMAIN tree :
        /\ IsConfig(f)
        /\ path_filter.some => StartsWith(f, path_filter.v \o <<"/">>)}

\* The flat map of f on the old side of commit c: that of its first parent,
\* empty when c has no parent.
OldSide(c, f) ==
    IF FirstParent(commits, c) = 0 THEN EmptyMap
    ELSE FlatOf(TreeOf(commits, FirstParent(commits, c)), f)

ParentConfigPaths(c) ==
    IF FirstParent(commits, c) = 0 THEN {}
    ELSE ConfigPaths(TreeOf(commits, FirstParent(commits, c)))

\* The FileChangeSets of a list that are for path f.
FileSetsFor(files, f) == {i \in DOMAIN files : files[i].path = f}

\* The HistoryPoints of the report that are for commit c.
PointsFor(c) ==
    {i \in DOMAIN report.commits : report.commits[i].commit_hash_full = c}

\* The KeyChanges the log report holds for path f under commit c: none if
\* it has no FileChangeSet for it.
ReportedChanges(c, f) ==
    IF \E i \in PointsFor(c) : FileSetsFor(report.commits[i].files, f) # {}
    THEN LET i == CHOOSE i \in PointsFor(c) :
                      FileSetsFor(report.commits[i].files, f) # {}
             j == CHOOSE j \in FileSetsFor(report.commits[i].files, f) : TRUE
         IN  report.commits[i].files[j].changes
    ELSE <<>>

\* The chain C1 (no config keys) -> C2 (adds x.y = 1) -> C3 (removes x.y),
\* walked whole and unfiltered.
IsAddRemoveChain ==
    /\ NumCommits = 3
    /\ \A i \in 1..NumCommits : commits[i].parents = <<i - 1, 0>>
    /\ TreeOf(commits, 1) = TreeNoConfig
    /\ TreeOf(commits, 2) = TreeXY
    /\ TreeOf(commits, 3) = TreeNoConfig
    /\ limit >= NumCommits
    /\ ~path_filter.some

\* C1: in the report of the history walk, for every commit C among the
\* first `limit` commits from HEAD and every config path f of C's tree, the
\* KeyChanges reported for f under C are diff(flat(P,f), flat(C,f)), P
\* being C's first parent and the old side the empty map when C has no
\* parent or f is absent in P, also when P lies beyond the limit; at most
\* one HistoryPoint is for C and at most one of its FileChangeSets for f.
\* On the chain C1 -> C2 (adds x.y=1) -> C3 (removes x.y) exactly two
\* HistoryPoints are returned: C3 with one Removed change, then C2 with one
\* Added change.
C1_LogChanges ==
    pc = "log_done" =>
        /\ \A n \in DOMAIN oids :
              LET c == oids[n]
              IN  /\ Cardinality(PointsFor(c)) <= 1
                  /\ \A f \in ConfigPaths(TreeOf(commits, c)) :
                        /\ ReportedChanges(c, f) =
                              DiffConfigMaps(OldSide(c, f),
                                             FlatOf(TreeOf(commits, c), f))
                        /\ \A i \in PointsFor(c) :
                              Cardinality(FileSetsFor(report.commits[i].files, f)) <= 1
        /\ IsAddRemoveChain =>
              /\ Len(report.commits) = 2
              /\ report.commits[1].commit_hash_full = 3
              /\ Len(report.commits[1].files) = 1
              /\ report.commits[1].files[1].changes =
                    <<KeyChange(KeyXY, "Removed", Some(<<"1">>), None)>>
              /\ report.commits[2].commit_hash_full = 2
              /\ Len(report.commits[2].files) = 1
              /\ report.commits[2].files[1].changes =
                    <<KeyChange(KeyXY, "Added", None, Some(<<"1">>))>>

C1_Witness ==
    /\ pc = "log_done"
    /\ IsAddRemoveChain
    /\ Len(report.commits) = 2

\* C2: the report of git_diff holds exactly one FileChangeSet for each path
\* f of the union of the two refs' config path sets for which
\* diff(flat(ref1,f), flat(ref2,f)) is non-empty, with those changes, and
\* none for any other path.  When ref1's a.yaml is {"k":"1"} and ref2 lacks
\* the file, the report has one FileChangeSet, for a.yaml, with a single
\* Removed change, total_keys_removed = 1 and total_files_changed = 1.
C2_RefDiffFiles ==
    pc = "diff_done" =>
        LET tree1 == TreeOf(commits, ref1)
            tree2 == TreeOf(commits, ref2)
            union == ConfigPaths(tree1) \cup ConfigPaths(tree2)
        IN  /\ \A i \in DOMAIN report.files : report.files[i].path \in union
            /\ \A f \in union :
                  LET d == DiffConfigMaps(FlatOf(tree1, f), FlatOf(tree2, f))
                      sets == FileSetsFor(report.files, f)
                  IN  IF d = <<>> THEN sets = {}
                      ELSE /\ Cardinality(sets) = 1
                           /\ \A i \in sets : report.files[i].changes = d
            /\ (tree1 = TreeK1 /\ PathA \notin DOMAIN tree2 /\ tree2 = TreeNoConfig
                   /\ ~path_filter.some) =>
                  /\ Len(report.files) = 1
                  /\ report.files[1].path = PathA
                  /\ report.files[1].changes =
                        <<KeyChange(KeyK, "Removed", Some(<<"1">>), None)>>
                  /\ report.total_keys_removed = 1
                  /\ report.total_files_changed = 1

C2_Witness ==
    /\ pc = "diff_done"
    /\ TreeOf(commits, ref1) = TreeK1
    /\ TreeOf(commits, ref2) = TreeNoConfig
    /\ ~path_filter.some
    /\ report.total_keys_removed = 1
    /\ report.total_files_changed = 1

\* C9: in the report of the history walk with a policy, for every path of
\* the commit's or its parent's config path set whose diff is non-empty,
\* the FileChangeSet's violations are those of every rule that applies to
\* the path, evaluated against the new-side flat map, which is the empty
\* map when the file is absent in the commit, undecodable or unparsable.
C9_LogViolations ==
    (pc = "log_done" /\ policy_file.some) =>
        \A n \in DOMAIN oids :
            LET c == oids[n]
                tree == TreeOf(commits, c)
            IN  \A f \in ConfigPaths(tree) \cup ParentConfigPaths(c) :
                    DiffConfigMaps(OldSide(c, f), FlatOf(tree, f)) # <<>> =>
                        \A i \in PointsFor(c) :
                            \A j \in FileSetsFor(report.commits[i].files, f) :
                                report.commits[i].files[j].violations =
                                    EvaluateRules(policy_file.rules, 1,
                                                  FlatOf(tree, f), f)

RuleIds(violations) == {violations[i].rule_id : i \in DOMAIN violations}

\* C10: in the report of git_diff with a policy, the violations of every
\* reported path f are those of the rules applying to f evaluated against
\* ref2's flat map of f, the empty map when f is absent or unparsable at
\* ref2; ref1's map has no part in them: the forbidden key x is reported
\* for a *.yaml path exactly when ref2's map has it.
C10_RefDiffViolations ==
    (pc = "diff_done" /\ policy_file.some) =>
        \A i \in DOMAIN report.files :
            LET f == report.files[i].path
                map2 == FlatOf(TreeOf(commits, ref2), f)
            IN  /\ report.files[i].violations =
                      EvaluateRules(policy_file.rules, 1, map2, f)
                /\ f = PathA =>
                      ("r2" \in RuleIds(report.files[i].violations)
                          <=> KeyXY \in DOMAIN map2)

\* a.yaml holds the forbidden key at ref1 and is absent at ref2: the
\* required key is reported missing, the forbidden key is not reported.
C10_Witness ==
    /\ pc = "diff_done"
    /\ policy_file.some
    /\ TreeOf(commits, ref1) = TreeXY
    /\ TreeOf(commits, ref2) = TreeNoConfig
    /\ Len(report.files) = 1
    /\ RuleIds(report.files[1].violations) = {"r1"}

-----------------------------------------------------------------------------
(* Claims about the boolean the aggregator returns                         *)

\* The FileChangeSets of the report produced: those of every HistoryPoint
\* of a GitLogReport, or those of a GitDiffReport.
ReportFileSets ==
    {report.files[i] : i \in DOMAIN report.files}
    \cup UNION {{report.commits[n].files[i] : i \in DOMAIN report.commits[n].files} :
                  n \in DOMAIN report.commits}

Returned == pc \in {"log_done", "diff_done"}

\* C11: the boolean git_log and git_diff return is true if and only if at
\* least one FileChangeSet of the report produced has a non-empty
\* violations list, and it is false whenever no policy is supplied.
C11_HasViolations ==
    Returned =>
        /\ has_violations <=> \E fc \in ReportFileSets : fc.violations # <<>>
        /\ ~policy_file.some => ~has_violations

C11_Witness ==
    /\ pc = "log_done"
    /\ has_violations
    /\ \E fc \in ReportFileSets : fc.violations # <<>>

-----------------------------------------------------------------------------
(* Claims about evaluate_rule and rule_applies_to_file                     *)

\* exists(m, k): m has the key k, or a key that is k followed by '.' and
\* more.
ExistsIn(m, k) ==
    \/ k \in DOMAIN m
    \/ \E q \in DOMAIN m :
          /\ Len(q) > Len(k)
          /\ \A i \in 1..Len(k) : q[i] = k[i]
          /\ q[Len(k) + 1] = "."

Logging == <<"l", "o", "g", "g", "i", "n", "g">>
LoggingLevel == <<"l", "o", "g", "g", "i", "n", "g", ".", "l", "e", "v", "e", "l">>
Level == <<"l", "e", "v", "e", "l">>

\* C12: RequiredKey(k) yields a violation, whose message contains
\* "missing", iff exists(m, k) is false, and ForbiddenKey(k) yields one iff
\* exists(m, k) is true, so exactly one of the two violates on any map;
\* RequiredKey("logging") yields none on {"logging.level":"info"} and one
\* on {}.
C12_KeyRules ==
    epc = "done" =>
        LET k == erule.check.key
        IN  /\ Len(erequired) <= 1 /\ Len(eforbidden) <= 1
            /\ erequired # <<>> <=> ~ExistsIn(emap, k)
            /\ erequired # <<>> =>
                  /\ Contains(erequired[1].message, <<"m", "i", "s", "s", "i", "n", "g">>)
                  /\ erequired[1].key = k
            /\ eforbidden # <<>> <=> ExistsIn(emap, k)
            /\ (erequired # <<>>) # (eforbidden # <<>>)
            /\ (k = Logging /\ emap = (LoggingLevel :> Info)) => erequired = <<>>
            /\ (k = Logging /\ emap = EmptyMap) => Len(erequired) = 1

C12_Witness ==
    /\ epc = "done"
    /\ erule.check.key = Logging
    /\ emap = (LoggingLevel :> Info)
    /\ erequired = <<>>
    /\ Len(eforbidden) = 1

Evaluated == epc \in {"evaluated", "done"}

\* C13: ValueEnum(k, values) yields a violation iff k is a key of m and
\* m[k] equals no element of values; a map that lacks k, even one with
\* keys under k, yields none.  ValueEnum("level", ["info","warn"]) on
\* {"level":"debug"} yields exactly one violation.
C13_ValueEnum ==
    (Evaluated /\ erule.check.type = "value_enum") =>
        LET k == erule.check.key
            values == erule.check.values
        IN  /\ Len(eviolation) <= 1
            /\ eviolation # <<>> <=>
                  (k \in DOMAIN emap /\ \A i \in DOMAIN values : values[i] # emap[k])
            /\ k \notin DOMAIN emap => eviolation = <<>>
            /\ (k = Level /\ values = <<Info, Warn>> /\ emap = (Level :> Debug)) =>
                  Len(eviolation) = 1

C13_Witness ==
    /\ Evaluated
    /\ erule.check.type = "value_enum"
    /\ erule.check.key = Level
    /\ erule.check.values = <<Info, Warn>>
    /\ emap = (Level :> Debug)
    /\ Len(eviolation) = 1
    /\ eviolation[1].rule_id = erule.id

\* r matches the part of s from position i to position j (i = j + 1 for
\* the empty part): '^' holds the part to the start of s, '$' to its end,
\* and between them each character of r is '.' or the character of s.
MatchesPart(r, s, i, j) ==
    LET atStart == r # <<>> /\ r[1] = "^"
        atEnd == r # <<>> /\ r[Len(r)] = "$"
        core == SubSeq(r, IF atStart THEN 2 ELSE 1,
                          IF atEnd THEN Len(r) - 1 ELSE Len(r))
    IN  /\ atStart => i = 1
        /\ atEnd => j = Len(s)
        /\ Len(core) = j - i + 1
        /\ \A n \in 1..Len(core) : core[n] = "." \/ core[n] = s[i + n - 1]

MatchesSomePart(r, s) ==
    \E i \in 1..(Len(s) + 1) : \E j \in (i - 1)..Len(s) : MatchesPart(r, s, i, j)

\* C14: ValueMatch(k, r) yields a violation iff k is a key of m and r
\* matches no part of m[k]; a match of any part complies, and a map that
\* lacks k yields no violation.
C14_ValueMatch ==
    (Evaluated /\ erule.check.type = "value_match") =>
        LET k == erule.check.key
        IN  /\ Len(eviolation) <= 1
            /\ eviolation # <<>> <=>
                  (k \in DOMAIN emap /\ ~MatchesSomePart(erule.check.regex, emap[k]))
            /\ k \notin DOMAIN emap => eviolation = <<>>

\* The regex nfo$ matches the end of "info", not the whole of it: the rule
\* complies.
C14_Witness ==
    /\ Evaluated
    /\ erule.check.type = "value_match"
    /\ erule.check.key = Level
    /\ erule.check.regex = <<"n", "f", "o", "$">>
    /\ emap = (Level :> Info)
    /\ eviolation = <<>>

\* C15: ForbiddenValue(k, v) yields a violation iff k is a key of m and
\* m[k] equals v; a missing key or any other value yields none.
C15_ForbiddenValue ==
    (Evaluated /\ erule.check.type = "forbidden_value") =>
        LET k == erule.check.key
        IN  /\ Len(eviolation) <= 1
            /\ eviolation # <<>> <=> (k \in DOMAIN emap /\ emap[k] = erule.check.value)
            /\ k \notin DOMAIN emap => eviolation = <<>>

\* The key holds another value than the forbidden one: no violation.
C15_Witness ==
    /\ Evaluated
    /\ erule.check.type = "forbidden_value"
    /\ erule.check.key \in DOMAIN emap
    /\ emap[erule.check.key] # erule.check.value
    /\ eviolation = <<>>

\* The base name of a path: what follows its last '/'.
BaseName(path) ==
    CHOOSE b \in {SubSeq(path, i, Len(path)) : i \in 1..(Len(path) + 1)} :
        /\ \A n \in DOMAIN b : b[n] # "/"
        /\ Len(b) = Len(path) \/ path[Len(path) - Len(b)] = "/"

HasSlashOrStars(pat) ==
    \/ \E i \in DOMAIN pat : pat[i] = "/"
    \/ \E i \in 1..(Len(pat) - 1) : pat[i] = "*" /\ pat[i + 1] = "*"

StarYaml == <<"*", ".", "y", "a", "m", "l">>
ConfigYaml == <<"c", "o", "n", "f", "i", "g", ".", "y", "a", "m", "l">>
DeepConfigYaml == <<"a", "/", "b", "/", "c", "o", "n", "f", "i", "g", ".", "y", "a", "m", "l">>
ConfigJson == <<"c", "o", "n", "f", "i", "g", ".", "j", "s", "o", "n">>

\* C16: rule_applies_to_file is true for every path when the rule has no
\* pattern; when the pattern contains '/' or '**' it is true iff the glob
\* matches the full path; for every other pattern it is true iff the glob
\* matches the base name of the path, whatever directories precede it:
\* '*.yaml' applies to config.yaml and to a/b/config.yaml, not to
\* config.json.
C16_RuleApplies ==
    epc # "start" /\ epc # "idle" =>
        LET pattern == erule.pattern
        IN  /\ ~pattern.some => eapplies
            /\ (pattern.some /\ HasSlashOrStars(pattern.v)) =>
                  (eapplies <=> GlobMatches(pattern.v, epath))
            /\ (pattern.some /\ ~HasSlashOrStars(pattern.v)) =>
                  (eapplies <=> GlobMatches(pattern.v, BaseName(epath)))
            /\ (pattern.some /\ pattern.v = StarYaml) =>
                  /\ epath = ConfigYaml => eapplies
                  /\ epath = DeepConfigYaml => eapplies
                  /\ epath = ConfigJson => ~eapplies

\* A pattern without '/' applies to a file in a directory by its base name
\* although it does not match the full path.
C16_Witness ==
    /\ epc = "applied"
    /\ erule.pattern.some
    /\ ~HasSlashOrStars(erule.pattern.v)
    /\ epath = DeepConfigYaml
    /\ eapplies
    /\ ~GlobMatches(erule.pattern.v, epath)

-----------------------------------------------------------------------------
(* Claims about the violations attached to a file                          *)

\* The violations of one file come from distinct rules of the policy, each
\* applying to the file, each with the severity its rule declares.
OnePerRule(violations, path, rules) ==
    /\ \A i, j \in DOMAIN violations :
          i # j => violations[i].rule_id # violations[j].rule_id
    /\ \A i \in DOMAIN violations :
          \E r \in DOMAIN rules :
              /\ rules[r].id = violations[i].rule_id
              /\ RuleAppliesToFile(rules[r], path)
              /\ violations[i].severity = rules[r].severity
              /\ violations[i].file = path

UniqueIds(rules) == \A i, j \in DOMAIN rules : i # j => rules[i].id # rules[j].id

\* C17: in the history walk, the ref diff and the directory check, run with
\* a policy of unique rule ids, no two violations attached to the same file
\* in the same comparison carry the same rule_id, the rule of every
\* violation applies to that file, and the severity of every violation is
\* the one its rule declares.
C17_OneViolationPerRule ==
    /\ (policy_file.some /\ UniqueIds(policy_file.rules)) =>
          /\ \A n \in DOMAIN commit_results :
                \A i \in DOMAIN commit_results[n].files :
                    OnePerRule(commit_results[n].files[i].violations,
                               commit_results[n].files[i].path, policy_file.rules)
          /\ \A i \in DOMAIN file_changes_list :
                OnePerRule(file_changes_list[i].violations,
                           file_changes_list[i].path, policy_file.rules)
          /\ \A fc \in ReportFileSets :
                OnePerRule(fc.violations, fc.path, policy_file.rules)
    /\ UniqueIds(policy.rules) =>
          /\ \A i \in DOMAIN all_file_violations :
                OnePerRule(all_file_violations[i].violations,
                           all_file_violations[i].path, policy.rules)
          /\ \A i \in DOMAIN policy_report.files :
                OnePerRule(policy_report.files[i].violations,
                           policy_report.files[i].path, policy.rules)

\* A file of the directory check violates two rules of different
\* severities.
C17_Witness ==
    /\ cpc = "check_done"
    /\ \E i \in DOMAIN policy_report.files :
          LET violations == policy_report.files[i].violations
          IN  /\ Len(violations) = 2
              /\ violations[1].severity # violations[2].severity

-----------------------------------------------------------------------------
(* Claims about deleted and unparsable files                               *)

\* The FileChangeSets the log report holds for path f under commit c.
ReportedFileSets(c, f) ==
    UNION {{report.commits[n].files[i] :
                i \in FileSetsFor(report.commits[n].files, f)} :
             n \in PointsFor(c)}

\* Every key of the map m is reported once with the given kind and its
\* value on the given side, and nothing else is reported.
AllKeysOfKind(cs, m, kind) ==
    /\ Len(cs) = Cardinality(DOMAIN m)
    /\ {cs[i].key : i \in DOMAIN cs} = DOMAIN m
    /\ \A i \in DOMAIN cs :
          /\ cs[i].kind = kind
          /\ cs[i].old_value = (IF kind = "Removed" THEN Some(m[cs[i].key]) ELSE None)
          /\ cs[i].new_value = (IF kind = "Added" THEN Some(m[cs[i].key]) ELSE None)

\* The config paths of the first parent of c that c's tree does not list.
DeletedPaths(c) == ParentConfigPaths(c) \ ConfigPaths(TreeOf(commits, c))

\* C18: in the history walk, a config file listed in the first parent's
\* tree and not in the commit's tree yields one FileChangeSet whose changes
\* are one Removed entry per key of the parent's flat map, with old_value
\* the parent's value and new_value None, and keys_added = keys_changed =
\* 0; if the parent's map of the file is empty no FileChangeSet is produced
\* for it.
C18_DeletedFile ==
    pc = "log_done" =>
        \A n \in DOMAIN oids :
            \A f \in DeletedPaths(oids[n]) :
                LET pm == OldSide(oids[n], f)
                    sets == ReportedFileSets(oids[n], f)
                IN  IF pm = EmptyMap THEN sets = {}
                    ELSE /\ Cardinality(sets) = 1
                         /\ \A fc \in sets :
                               /\ AllKeysOfKind(fc.changes, pm, "Removed")
                               /\ fc.keys_added = 0
                               /\ fc.keys_changed = 0
                               /\ fc.keys_removed = Cardinality(DOMAIN pm)

\* A commit deletes a file of two keys: both are reported Removed.
C18_Witness ==
    /\ pc = "log_done"
    /\ \E n \in DOMAIN oids :
          \E f \in DeletedPaths(oids[n]) :
              /\ Cardinality(DOMAIN OldSide(oids[n], f)) = 2
              /\ \E fc \in ReportedFileSets(oids[n], f) : fc.keys_removed = 2

\* The text of path f in the tree fails to parse.
ParseFails(tree, f) ==
    f \in DOMAIN tree /\ tree[f].utf8 /\ ~tree[f].wellformed

\* The text of path f in the tree parses.
Parses(tree, f) ==
    f \in DOMAIN tree /\ tree[f].utf8 /\ tree[f].wellformed

\* The path names a directory of the tree.
IsDirectoryIn(tree, f) ==
    \E q \in DOMAIN tree :
        Len(q) > Len(f) /\ SubSeq(q, 1, Len(f)) = f /\ q[Len(f) + 1] = "/"

\* The FileChangeSets the diff report holds for path f.
DiffFileSets(f) == {report.files[i] : i \in FileSetsFor(report.files, f)}

\* One FileChangeSet, reporting every key of the side that parsed as
\* Removed (the new side failed) or Added (the old side failed); none if
\* that side has no keys.
DegradedTo(sets, m, kind) ==
    IF m = EmptyMap THEN sets = {}
    ELSE /\ Cardinality(sets) = 1
         /\ \A fc \in sets : AllKeysOfKind(fc.changes, m, kind)

\* C19: a config file whose text fails to parse on one side of a
\* comparison is the empty map on that side only.  Neither the history
\* walk nor the ref diff returns an error because of it: a run fails only
\* on a ref that does not resolve or a path that is a directory on one
\* side.  All files of all commits are still processed, and the file is
\* diffed as all keys Removed (failure on the new side) or all keys Added
\* (failure on the old side) relative to the side that parsed.
C19_ParseFailureDegrades ==
    /\ pc = "log_failed" =>
          \E n \in DOMAIN oids :
              /\ FirstParent(commits, oids[n]) # 0
              /\ \E f \in ConfigPaths(TreeOf(commits, oids[n])) :
                    IsDirectoryIn(TreeOf(commits, FirstParent(commits, oids[n])), f)
    /\ pc = "diff_failed" =>
          \/ ref1 = 0
          \/ ref2 = 0
          \/ \E f \in ConfigPaths(TreeOf(commits, ref1))
                        \cup ConfigPaths(TreeOf(commits, ref2)) :
                \/ IsDirectoryIn(TreeOf(commits, ref1), f)
                \/ IsDirectoryIn(TreeOf(commits, ref2), f)
    /\ pc = "log_done" =>
          \A n \in DOMAIN oids :
              LET c == oids[n]
                  tree == TreeOf(commits, c)
                  p == FirstParent(commits, c)
              IN  \A f \in ConfigPaths(tree) \cup ParentConfigPaths(c) :
                      /\ ReportedChanges(c, f) =
                            DiffConfigMaps(OldSide(c, f), FlatOf(tree, f))
                      /\ (p # 0 /\ ParseFails(tree, f)
                            /\ Parses(TreeOf(commits, p), f)) =>
                            DegradedTo(ReportedFileSets(c, f), OldSide(c, f),
                                       "Removed")
                      /\ (p # 0 /\ Parses(tree, f)
                            /\ ParseFails(TreeOf(commits, p), f)) =>
                            DegradedTo(ReportedFileSets(c, f), FlatOf(tree, f),
                                       "Added")
    /\ pc = "diff_done" =>
          LET tree1 == TreeOf(commits, ref1)
              tree2 == TreeOf(commits, ref2)
          IN  \A f \in ConfigPaths(tree1) \cup ConfigPaths(tree2) :
                  /\ (ParseFails(tree2, f) /\ Parses(tree1, f)) =>
                        DegradedTo(DiffFileSets(f), FlatOf(tree1, f), "Removed")
                  /\ (ParseFails(tree1, f) /\ Parses(tree2, f)) =>
                        DegradedTo(DiffFileSets(f), FlatOf(tree2, f), "Added")

\* The newest commit breaks a.yaml, whose parent held one key: the key is
\* reported Removed and the older commits are reported after it.
C19_Witness ==
    /\ pc = "log_done"
    /\ Len(oids) >= 2
    /\ ParseFails(TreeOf(commits, oids[1]), PathA)
    /\ \E fc \in ReportedFileSets(oids[1], PathA) :
          fc.keys_removed >= 1 /\ fc.keys_added = 0
    /\ Len(report.commits) >= 2

-----------------------------------------------------------------------------
(* Claims about what a report keeps                                        *)

\* No config path of commit c or of its first parent differs between the
\* two.
NothingChanged(c) ==
    \A f \in ConfigPaths(TreeOf(commits, c)) \cup ParentConfigPaths(c) :
        DiffConfigMaps(OldSide(c, f), FlatOf(TreeOf(commits, c), f)) = <<>>

\* C20: in every report of the history walk or the ref diff, and in the
\* lists it is built from, every FileChangeSet has at least one KeyChange
\* and every HistoryPoint at least one FileChangeSet; a walked commit none
\* of whose files has changes contributes no HistoryPoint.
C20_NothingEmpty ==
    /\ \A fc \in ReportFileSets : Len(fc.changes) >= 1
    /\ \A n \in DOMAIN report.commits : Len(report.commits[n].files) >= 1
    /\ \A i \in DOMAIN file_changes_list : Len(file_changes_list[i].changes) >= 1
    /\ \A n \in DOMAIN commit_results :
          /\ Len(commit_results[n].files) >= 1
          /\ \A i \in DOMAIN commit_results[n].files :
                Len(commit_results[n].files[i].changes) >= 1
    /\ pc = "log_done" =>
          \A n \in DOMAIN oids : NothingChanged(oids[n]) => PointsFor(oids[n]) = {}

\* Of the commits walked, one changed nothing and has no HistoryPoint,
\* and another has one.
C20_Witness ==
    /\ pc = "log_done"
    /\ report.commits # <<>>
    /\ \E n \in DOMAIN oids :
          /\ NothingChanged(oids[n])
          /\ ConfigPaths(TreeOf(commits, oids[n])) # {}
          /\ PointsFor(oids[n]) = {}


-----------------------------------------------------------------------------
(* C21: merge commits and the walk                                         *)

\* The first-parent lineage of commit c: c, its first parent, that commit's
\* first parent, and so on.
RECURSIVE FirstParentLineage(_, _)
FirstParentLineage(cms, c) ==
    IF c = 0 THEN {}
    ELSE {c} \cup FirstParentLineage(cms, FirstParent(cms, c))

\* The commits reachable from HEAD solely through a non-first parent of a
\* merge commit.
OffLineage ==
    Reachable(commits, {HeadCommit}) \ FirstParentLineage(commits, HeadCommit)

\* C21: the history walk follows first-parent lineage only: a commit that is
\* reachable from HEAD solely through a merge commit's non-first parent is
\* never visited and never yields a HistoryPoint.
C21_FirstParentOnly ==
    pc \in {"log_loop", "log_done"} =>
        /\ \A n \in DOMAIN oids : oids[n] \notin OffLineage
        /\ \A i \in DOMAIN commit_results :
              commit_results[i].commit_hash_full \notin OffLineage

\* The walk has reported a HistoryPoint for a commit off the lineage.
C21_OffLineageReported ==
    /\ pc = "log_done"
    /\ \E i \in DOMAIN report.commits :
          report.commits[i].commit_hash_full \in OffLineage


-----------------------------------------------------------------------------
(* C22: the order of the output                                            *)

\* The paths of the FileChangeSets strictly ascend in byte order.
PathsAscending(files) ==
    \A i \in 1..(Len(files) - 1) : StrLess(files[i].path, files[i + 1].path)

\* The keys of the KeyChanges strictly ascend in byte order.
KeysAscending(cs) ==
    \A i \in 1..(Len(cs) - 1) : StrLess(cs[i].key, cs[i + 1].key)

\* Newest first: commit times strictly descend along the HistoryPoints.
PointsNewestFirst(points) ==
    \A i \in 1..(Len(points) - 1) :
        commits[points[i].commit_hash_full].time >
            commits[points[i + 1].commit_hash_full].time

\* The order of everything in the report but the FileChangeSets of a
\* HistoryPoint.
OrderedButLogFiles ==
    /\ pc = "log_done" =>
          /\ PointsNewestFirst(report.commits)
          /\ \A i \in DOMAIN report.commits :
                \A j \in DOMAIN report.commits[i].files :
                    KeysAscending(report.commits[i].files[j].changes)
    /\ pc = "diff_done" =>
          /\ PathsAscending(report.files)
          /\ \A j \in DOMAIN report.files :
                KeysAscending(report.files[j].changes)

\* C22: in every GitLogReport the HistoryPoints are newest-first, and in
\* every HistoryPoint and every GitDiffReport the FileChangeSets ascend by
\* path and the KeyChanges of each FileChangeSet ascend by key, also when a
\* commit both changes and deletes config files.
C22_OutputOrdering ==
    /\ OrderedButLogFiles
    /\ pc = "log_done" =>
          \A i \in DOMAIN report.commits :
              PathsAscending(report.commits[i].files)

\* A HistoryPoint holds a deleted file's FileChangeSet after that of a
\* changed file with a greater path.
C22_DeletedAfterChanged ==
    /\ pc = "log_done"
    /\ \E i \in DOMAIN report.commits :
          ~PathsAscending(report.commits[i].files)


-----------------------------------------------------------------------------
(* C23: the walk is bounded by limit                                       *)

\* The number of steps git_log can still take: one to walk, one for each
\* commit of oids not yet examined, one to report.
StepsLeft ==
    CASE pc = "log_start" -> limit + 3
      [] pc = "log_loop" -> (Len(oids) - next) + 2
      [] OTHER -> 0

NoRepeat(seq) == \A i, j \in DOMAIN seq : seq[i] = seq[j] => i = j

\* The HistoryPoints gathered so far are those of commits already examined,
\* in the order of oids: point i is for oids[at[i]] with at increasing.
PointsOfExamined ==
    \E at \in [DOMAIN commit_results -> 1..(next - 1)] :
        /\ \A i \in DOMAIN commit_results :
              commit_results[i].commit_hash_full = oids[at[i]]
        /\ \A i, j \in DOMAIN commit_results : i < j => at[i] < at[j]

WalkBounded ==
    pc \in {"log_loop", "log_failed", "log_done"} =>
        /\ Len(oids) <= limit
        /\ NoRepeat(oids)
        /\ next \in 1..(Len(oids) + 1)
        /\ PointsOfExamined
        /\ pc = "log_done" =>
              /\ next = Len(oids) + 1
              /\ report.commits = commit_results
              /\ Len(report.commits) <= limit
              /\ limit = 0 => report.commits = <<>>

\* A step of git_log examines the next commit of oids, the one at `next`,
\* and moves past it (or fails on it), and uses up one of the steps left.
WalkStep ==
    /\ StepsLeft' < StepsLeft
    /\ pc = "log_loop" =>
          /\ oids' = oids
          /\ \/ pc' = "log_loop" /\ next' = next + 1
             \/ pc' \in {"log_failed", "log_done"} /\ next' = next
          /\ \/ commit_results' = commit_results
             \/ /\ pc' = "log_loop"
                /\ Len(commit_results') = Len(commit_results) + 1
                /\ commit_results'[Len(commit_results')].commit_hash_full
                      = oids[next]
                /\ SubSeq(commit_results', 1, Len(commit_results))
                      = commit_results

\* C23: walk_commits returns at most `limit` commit ids, each at most once;
\* the walk examines each returned commit exactly once, in order, and then
\* terminates; the report holds at most `limit` HistoryPoints, none when
\* limit = 0.
C23_WalkBoundedByLimit == []WalkBounded /\ [][WalkStep]_vars

\* The limit has cut the walk short: three commits are reachable, two were
\* returned, each was examined and reported.
C23_Witness ==
    /\ pc = "log_done"
    /\ limit = 2
    /\ Cardinality(Reachable(commits, {HeadCommit})) = 3
    /\ Len(oids) = 2
    /\ Len(report.commits) = 2


-----------------------------------------------------------------------------
(* C24: reading a path at a commit                                         *)

\* Paths that name, in one tree or another of the object database, a text
\* blob, a binary blob, a directory, or nothing.
ProbedPaths == {PathA, PathB, PathC, PathN, DirD}

\* Some(text) iff the path is a blob of the tree with UTF-8 content, and
\* None, not an error, otherwise.
SomeIffDecodable(tree, p) ==
    LET r == GetFileContentAtCommit(tree, p)
    IN  /\ ~r.err
        /\ r.some <=> (p \in DOMAIN tree /\ tree[p].utf8)
        /\ r.some => r.v = tree[p]

\* C24: get_file_content_at_commit returns Some(text) iff the path is
\* present at the commit and UTF-8 decodable, and None without an error
\* otherwise, whether the path names nothing, a binary blob or a non-file
\* entry; so neither the history walk nor the ref diff fails on a file
\* (a ref diff fails only on a ref that does not resolve).
C24_ContentOrNone ==
    /\ \A c \in DOMAIN commits : \A p \in ProbedPaths :
          SomeIffDecodable(TreeOf(commits, c), p)
    /\ pc # "log_failed"
    /\ pc = "diff_failed" => (ref1 = 0 \/ ref2 = 0)

\* The history walk has failed on a config path of the commit that names
\* a directory in the parent.
C24_WalkFailedOnDirectory ==
    /\ pc = "log_failed"
    /\ \E f \in ConfigPaths(TreeOf(commits, oids[next])) :
          /\ FirstParent(commits, oids[next]) # 0
          /\ GetFileContentAtCommit(
                TreeOf(commits, FirstParent(commits, oids[next])), f).err


-----------------------------------------------------------------------------
(* C25: the config paths of a tree                                         *)

EndsWith(s, suffix) ==
    Len(suffix) <= Len(s) /\ SubSeq(s, Len(s) - Len(suffix) + 1, Len(s)) = suffix

\* The path's file name is a non-empty stem, a dot and one of the four
\* extensions.
HasConfigExtension(path) ==
    \E e \in ConfigExtensions :
        /\ EndsWith(path, <<".">> \o e)
        /\ Len(path) > Len(e) + 1
        /\ path[Len(path) - Len(e) - 1] # "/"

\* The files of the tree with a config extension.
ConfigFilesOf(tree) == {q \in DOMAIN tree : HasConfigExtension(q)}

\* The directory a filter names, written with or without the separator at
\* its end.
DirectoryOf(f) ==
    IF f # <<>> /\ f[Len(f)] = "/" THEN SubSeq(f, 1, Len(f) - 1) ELSE f

\* The files of the tree in the subtree of directory d.
FilesUnder(tree, d) == {q \in DOMAIN tree : StartsWith(q, d \o <<"/">>)}

\* What the listing is to hold, as a set.
ExpectedListing(tree, filter) ==
    IF ~filter.some THEN ConfigFilesOf(tree)
    ELSE IF filter.v # <<>> /\ FilesUnder(tree, DirectoryOf(filter.v)) # {}
         THEN ConfigFilesOf(tree) \cap FilesUnder(tree, DirectoryOf(filter.v))
    ELSE IF filter.v \in DOMAIN tree
         THEN IF HasConfigExtension(filter.v) THEN {filter.v} ELSE {}
    ELSE {}

\* C25: list_config_files_in_tree returns, ascending and without
\* duplicates, exactly the repository-relative paths of the tree's files
\* with extension yml, yaml, json or toml: all of them without a filter,
\* those of the filter's subtree when the filter names a directory, the
\* filter path alone iff its extension matches when it names a file, and
\* nothing when it names nothing in the tree.
C25_ListConfigFiles ==
    list_pc = "returned" =>
        /\ \A i \in 1..(Len(listed_files) - 1) :
              StrLess(listed_files[i], listed_files[i + 1])
        /\ {listed_files[i] : i \in DOMAIN listed_files}
              = ExpectedListing(list_tree, list_filter)

\* A directory filter has kept the config files below it, at two depths,
\* and left out a config file at the top and one in a directory whose name
\* starts with the filter.
C25_Witness ==
    /\ list_pc = "returned"
    /\ list_filter.some
    /\ list_filter.v \in {<<"d">>, <<"d", "/">>}
    /\ Len(listed_files) = 2
    /\ Cardinality(ConfigFilesOf(list_tree)) = 5


-----------------------------------------------------------------------------
(* C26: the format a file is parsed as                                     *)

\* The lower-case letter of each upper-case letter of the extensions.
LowerOf ==
    ("Y" :> "y") @@ ("A" :> "a") @@ ("M" :> "m") @@ ("L" :> "l") @@
    ("J" :> "j") @@ ("S" :> "s") @@ ("O" :> "o") @@ ("N" :> "n") @@
    ("T" :> "t")

ToLower(s) ==
    [i \in DOMAIN s |-> IF s[i] \in DOMAIN LowerOf THEN LowerOf[s[i]] ELSE s[i]]

\* The format of an extension, whatever its letter case.
FormatIgnoringCase(ext) ==
    CASE ToLower(ext) \in {<<"y", "m", "l">>, <<"y", "a", "m", "l">>} -> "yaml"
      [] ToLower(ext) = <<"j", "s", "o", "n">> -> "json"
      [] ToLower(ext) = <<"t", "o", "m", "l">> -> "toml"
      [] OTHER -> "unsupported"

\* C26: the format a file is parsed as is derived from its extension
\* case-insensitively: yml or yaml in any letter case is parsed as YAML,
\* json as JSON, toml as TOML, and only an extension matching none of
\* these fails as an unsupported format.
C26_FormatIgnoresCase ==
    parse_pc = "returned" =>
        /\ parse_format = FormatIgnoringCase(ExtOf(parse_path))
        /\ parse_result.ok <=>
              /\ FormatIgnoringCase(ExtOf(parse_path)) # "unsupported"
              /\ parse_content.utf8
              /\ parse_content.wellformed

\* A well-formed file with an upper-case config extension has been
\* rejected as an unsupported format.
C26_UpperCaseUnsupported ==
    /\ parse_pc = "returned"
    /\ ExtOf(parse_path) = <<"Y", "A", "M", "L">>
    /\ parse_content = Text(DocK1)
    /\ parse_format = "unsupported"
    /\ ~parse_result.ok
    /\ ~IsConfig(parse_path)

\* For extensions in lower case the format is as stated.
LowerCaseFormat ==
    (parse_pc = "returned" /\ ExtOf(parse_path) = ToLower(ExtOf(parse_path))) =>
        /\ parse_format = FormatIgnoringCase(ExtOf(parse_path))
        /\ parse_result.ok <=>
              /\ parse_format # "unsupported"
              /\ parse_content.utf8
              /\ parse_content.wellformed


-----------------------------------------------------------------------------
(* C27: the counts                                                         *)

\* The number of KeyChanges of a kind in a FileChangeSet.
NumOfKind(fc, kind) ==
    Cardinality({i \in DOMAIN fc.changes : fc.changes[i].kind = kind})

CountsConsistent(fc) ==
    /\ fc.keys_added = NumOfKind(fc, "Added")
    /\ fc.keys_removed = NumOfKind(fc, "Removed")
    /\ fc.keys_changed = NumOfKind(fc, "Changed")
    /\ fc.keys_added + fc.keys_removed + fc.keys_changed = Len(fc.changes)

\* The sum of a count field over the FileChangeSets of files.
RECURSIVE SumOver(_, _)
SumOver(files, field) ==
    IF files = <<>> THEN 0
    ELSE Head(files)[field] + SumOver(Tail(files), field)

\* C27: in every FileChangeSet keys_added, keys_removed and keys_changed
\* are the numbers of its KeyChanges of kind Added, Removed and Changed
\* and sum to the length of changes; in every GitDiffReport
\* total_files_changed is the length of files and the three key totals are
\* the sums of the per-file counts.
C27_CountsConsistent ==
    /\ \A j \in DOMAIN file_changes_list : CountsConsistent(file_changes_list[j])
    /\ \A i \in DOMAIN commit_results :
          \A j \in DOMAIN commit_results[i].files :
              CountsConsistent(commit_results[i].files[j])
    /\ \A i \in DOMAIN report.commits :
          \A j \in DOMAIN report.commits[i].files :
              CountsConsistent(report.commits[i].files[j])
    /\ pc = "diff_done" =>
          /\ \A j \in DOMAIN report.files : CountsConsistent(report.files[j])
          /\ report.total_files_changed = Len(report.files)
          /\ report.total_keys_added = SumOver(report.files, "keys_added")
          /\ report.total_keys_removed = SumOver(report.files, "keys_removed")
          /\ report.total_keys_changed = SumOver(report.files, "keys_changed")

\* A ref diff of two files with one key changed and two removed.
C27_Witness ==
    /\ pc = "diff_done"
    /\ Len(report.files) = 2
    /\ report.total_keys_added = 0
    /\ report.total_keys_removed = 2
    /\ report.total_keys_changed = 1
    /\ report.files[1].keys_removed = 1
    /\ report.files[1].keys_changed = 1


-----------------------------------------------------------------------------
(* C28: the parent of nested leaves                                        *)

Servers == <<"s", "e", "r", "v", "e", "r", "s">>
ServersFirst == <<"s", "e", "r", "v", "e", "r", "s", "[", "0", "]">>

\* The nodes of the flattened document, the root apart, that are objects
\* or arrays with at least one leaf beneath them and whose key, as the
\* flattener builds it, is k.
ParentNodes(k) ==
    {p \in InteriorPaths(doc) \ {<<>>} :
        /\ EmptyPrefixKey(doc, p, <<>>) = k
        /\ \E q \in LeafPaths(doc) :
              Len(q) > Len(p) /\ SubSeq(q, 1, Len(p)) = p}

ParentEvaluated == fpc = "done" /\ epc = "done"

\* The key counts as present: RequiredKey yields no violation and
\* ForbiddenKey yields one.
CountsAsPresent == erequired = NoViolation /\ eforbidden # NoViolation
CountsAsAbsent == erequired # NoViolation /\ eforbidden = NoViolation

ObjectParentCountsAsPresent ==
    ParentEvaluated =>
        LET k == erule.check.key
        IN  /\ (k # <<>> /\ \E p \in ParentNodes(k) : NodeAt(doc, p).kind = "object")
                  => CountsAsPresent
            /\ IF \E key \in DOMAIN flat : key = k \/ StartsWith(key, k \o <<".">>)
               THEN CountsAsPresent ELSE CountsAsAbsent
            /\ (doc = DocServers /\ k = Servers) => CountsAsAbsent
            /\ (doc = DocServers /\ k = ServersFirst) => CountsAsPresent

\* The rules have been evaluated on the key of an object two levels down,
\* which counts as present, in a document that has an array with leaves
\* too.
C28_Witness ==
    /\ ParentEvaluated
    /\ \E p \in ParentNodes(erule.check.key) :
          Len(p) = 2 /\ NodeAt(doc, p).kind = "object"
    /\ \E p \in InteriorPaths(doc) : NodeAt(doc, p).kind = "array"
    /\ CountsAsPresent

\* The claim's example: the rules have been evaluated on "servers".
C28_ServersAbsent ==
    /\ ParentEvaluated
    /\ doc = DocServers
    /\ erule.check.key = Servers
    /\ flat = (<<"s", "e", "r", "v", "e", "r", "s", "[", "0", "]", ".", "h", "o", "s", "t">>
                  :> <<"a">>)
    /\ CountsAsAbsent


-----------------------------------------------------------------------------
(* C29: files without key changes and the policy                           *)

\* The FileChangeSets of a list that carry violations are for paths whose
\* flat maps differ between the two sides, old(f) and new(f).
ViolationsOnlyWhereChanged(files, oldOf(_), newOf(_)) ==
    \A j \in DOMAIN files :
        files[j].violations # <<>> => oldOf(files[j].path) # newOf(files[j].path)

SomeViolation(files) == \E j \in DOMAIN files : files[j].violations # <<>>

\* C29: in the history walk and in the ref diff, a config file whose flat
\* map is the same on both sides of a comparison contributes no Violation
\* and never makes has_violations true: every violation is in the
\* FileChangeSet of a file whose flat maps differ, and has_violations is
\* true only if there is such a violation.
C29_UnchangedNotEvaluated ==
    /\ pc \in {"log_loop", "log_done"} =>
          /\ \A i \in DOMAIN commit_results :
                LET c == commit_results[i].commit_hash_full
                    oldOf(f) == OldSide(c, f)
                    newOf(f) == FlatOf(TreeOf(commits, c), f)
                IN  ViolationsOnlyWhereChanged(commit_results[i].files, oldOf, newOf)
          /\ has_violations =>
                \E i \in DOMAIN commit_results : SomeViolation(commit_results[i].files)
          /\ pc = "log_done" => report.commits = commit_results
    /\ pc \in {"diff_loop", "diff_done"} =>
          /\ LET oldOf(f) == FlatOf(TreeOf(commits, ref1), f)
                 newOf(f) == FlatOf(TreeOf(commits, ref2), f)
             IN  ViolationsOnlyWhereChanged(file_changes_list, oldOf, newOf)
          /\ has_violations => SomeViolation(file_changes_list)
          /\ pc = "diff_done" => report.files = file_changes_list

\* The walk with a policy has examined a commit whose config file breaks
\* rules that apply to it and is as in the parent, and has reported no
\* violation.
C29_Witness ==
    /\ pc = "log_done"
    /\ policy_file.some
    /\ ~has_violations
    /\ \E n \in DOMAIN oids : \E f \in ConfigPaths(TreeOf(commits, oids[n])) :
          /\ FirstParent(commits, oids[n]) # 0
          /\ FlatOf(TreeOf(commits, oids[n]), f) = OldSide(oids[n], f)
          /\ EvaluateRules(policy_file.rules, 1,
                           FlatOf(TreeOf(commits, oids[n]), f), f) # <<>>


-----------------------------------------------------------------------------
(* C30: collect_log and git_log                                            *)

BothReturned == collect_pc = "returned" /\ pc \in {"log_done", "log_failed"}

NoViolationsIn(r) ==
    \A i \in DOMAIN r.commits :
        \A j \in DOMAIN r.commits[i].files : r.commits[i].files[j].violations = <<>>

\* C30: on one repository state, with the same path_filter and limit,
\* collect_log and git_log run without a policy produce the same
\* GitLogReport (both fail on the same repositories): the same
\* HistoryPoints in the same order with the same FileChangeSets and
\* KeyChanges, every violations list empty, and commits_analyzed the number
\* of HistoryPoints.
C30_CollectLogAsGitLog ==
    (BothReturned /\ ~policy_file.some) =>
        /\ collected.err <=> pc = "log_failed"
        /\ ~collected.err =>
              /\ collected.report = report
              /\ NoViolationsIn(collected.report)
              /\ collected.report.commits_analyzed = Len(collected.report.commits)

\* Both have reported a walk without a policy with two HistoryPoints, one
\* of them with two FileChangeSets.
C30_Witness ==
    /\ BothReturned
    /\ ~policy_file.some
    /\ ~collected.err
    /\ Len(collected.report.commits) = 2
    /\ \E i \in DOMAIN report.commits : Len(report.commits[i].files) = 2

=============================================================================
